---- MODULE Spec2Model ----
(***************************************************************************)
(* State-machine model of UIStateAgent: the AgentWorkflow loop             *)
(* (graph/workflow.py) together with the collaborators it calls:           *)
(* the planner (agents/ui_navigator_agent.py), the browser driver          *)
(* (utils/browser_controller.py), the validator                            *)
(* (agents/state_validator_agent.py) and the context store                 *)
(* (agents/context_sync_agent.py, utils/upstash_sync.py), and the element  *)
(* lookup of the Selenium fallback (utils/selenium_fallback.py).           *)
(***************************************************************************)
EXTENDS Integers, Sequences, FiniteSets, TLC

VARIABLES
    pc,                 \* position of the execute() coroutine
    max_steps,          \* AgentWorkflow.max_steps
    selenium_available, \* utils/selenium_fallback.py SELENIUM_AVAILABLE
    ocr_available,      \* utils/ocr_automation.py OCR_AVAILABLE
    browser_snapshots,  \* the browser offers the snapshot methods validate_state calls
    app_url,            \* WorkflowState.app_url
    app_name,           \* WorkflowState.app_name
    task_name,          \* WorkflowState.task_name
    navigation_steps,   \* WorkflowState.navigation_steps
    current_step,       \* WorkflowState.current_step
    screenshots,        \* WorkflowState.screenshots
    state_valid,        \* WorkflowState.state_valid
    completed,          \* WorkflowState.completed
    error,              \* WorkflowState.error
    result,             \* the dict execute() returns
    context_version,    \* ContextSyncAgent.context_version
    local_cache,        \* ContextSyncAgent.local_cache
    sync_history,       \* ContextSyncAgent.sync_history
    upstash_configured, \* UpstashSync: rest_url and rest_token are both set
    upstash,            \* the remote store: key -> the JSON text last SET
    now,                \* time.time()
    last_call,          \* history: the last store call and what it returned
    stamps,             \* history: the versions save_context stamped, in order
    remote_answered,    \* history: some remote request of this run succeeded
    saved,              \* history: key -> the record its latest save wrote
    state_history,      \* StateValidatorAgent.state_history
    validation_count,   \* StateValidatorAgent.validation_count
    snapshot_log,       \* history: every snapshot state_history was given
    peer,               \* the ContextSyncAgent of a second workflow instance
    driver_frame,       \* SeleniumFallback.driver: the frame it is switched to
    current_iframe,     \* SeleniumFallback.current_iframe
    iterations,         \* history: loop bodies entered by execute()
    performed,          \* history: driver operations issued for planned actions
    planner_calls,      \* history: calls of navigate_to_task
    absorbed,           \* history: steps of this iteration whose handler swallowed an exception
    last_sync           \* history: what the sync step of this iteration saw

wf_vars == <<app_url, app_name, task_name, navigation_steps, current_step,
             screenshots, state_valid, completed, error>>
env_vars == <<max_steps, selenium_available, ocr_available, browser_snapshots>>
store_vars == <<context_version, local_cache, sync_history, upstash_configured,
                upstash, now, last_call, stamps, remote_answered, saved>>
hist_vars == <<iterations, performed, planner_calls, absorbed, last_sync>>
validator_vars == <<state_history, validation_count, snapshot_log>>
peer_vars == <<peer>>
selenium_vars == <<driver_frame, current_iframe>>
vars == <<pc, wf_vars, env_vars, store_vars, validator_vars, peer_vars,
          selenium_vars, result, hist_vars>>

----------------------------------------------------------------------------
(* Bounds of the model.                                                    *)

\* longest action list the planner returns
MaxPlanLen == 2
\* largest max_steps taken from the dense range 0..MaxStepsBound
MaxStepsBound == 2

----------------------------------------------------------------------------
(* Python values.                                                          *)

\* Python's None
None == "<None>"

\* bool(x) for x a str or None
Truthy(x) == x \notin {None, ""}

\* dict.get(key, default)
Get(d, key, default) == IF key \in DOMAIN d THEN d[key] ELSE default

\* str(e) of the exceptions the collaborators raise; str(TimeoutError()) = ""
ExceptionMessages == {"", "Timeout 30000ms exceeded"}

\* str(e) of the AttributeError a missing attribute raises
AttributeErrorMessage == "object has no attribute"

\* outcome of a call that returns nothing
Returned == [raised |-> FALSE, msg |-> ""]
Raised(m) == [raised |-> TRUE, msg |-> m]
CallOutcomes == {Returned} \cup {Raised(m) : m \in ExceptionMessages}

----------------------------------------------------------------------------
(* Inputs of execute() and of the constructor.                             *)

AppUrls == {"https://app.example"}
AppNames == {"notion"}
TaskNames == {"create_page"}
Urls == {"https://app.example/next"}

\* max_steps values: a dense range and the default-sized 10
MaxStepsValues == (0..MaxStepsBound) \cup {10}

\* one element of the JSON list the planner returns; the last one is a list
\* element that is not a dict
PlanItems ==
    { [action_type |-> "click", selector |-> "#next"],
      [action_type |-> "type", selector |-> "#name", text |-> "Ada"],
      [action_type |-> "navigate"],
      [action_type |-> "wait", selector |-> "#spinner"],
      [selector |-> "#go"],
      [nondict |-> TRUE] }

RECURSIVE SeqsUpTo(_, _)
SeqsUpTo(S, n) ==
    IF n = 0 THEN {<<>>}
    ELSE LET shorter == SeqsUpTo(S, n - 1)
         IN  shorter \cup {Append(s, x) : s \in {t \in shorter : Len(t) = n - 1}, x \in S}

Plans == SeqsUpTo(PlanItems, MaxPlanLen)

----------------------------------------------------------------------------
(* Collaborators of the workflow.                                          *)

\* the public methods class ContextSyncAgent defines
ContextSyncAgentMethods ==
    { "save_context", "get_context", "sync_agent_state", "get_agent_state",
      "sync_workflow_context", "get_workflow_context", "detect_desync",
      "clear_workflow_context", "get_sync_stats" }

\* local-cache key of the workflow context of one step
WorkflowContextKey(workflow_id, step) ==
    workflow_id \o <<":workflow:step:", ToString(step)>>

\* context_key = f"{workflow_id}:step:{step}:agent:{agent_name}"
AgentStateKey(workflow_id, step, agent_name) ==
    workflow_id \o <<":step:", ToString(step), ":agent:", agent_name>>

\* workflow_id = f"{app_name}_{task_name}"
WorkflowId(app, task) == <<app, "_", task>>

\* helpers.get_screenshot_path: {base_dir}/{app}/{task}/step_{step:03d}.png
get_screenshot_path(app, task, step) == <<"./data/screenshots", app, task, "step", step>>

\* what UINavigatorAgent.navigate_to_task does: it opens app_url, asks the
\* LLM and parses the reply into a list, or re-raises what went wrong
PlannerOutcomes ==
    {[raised |-> FALSE, msg |-> "", plan |-> p] : p \in Plans}
    \cup {[raised |-> TRUE, msg |-> m, plan |-> <<>>] : m \in ExceptionMessages}

\* on later steps _navigate_step does not call the planner
NoPlannerCall == [raised |-> FALSE, msg |-> "", plan |-> <<>>]

\* the judgment validate_state's own handler returns when its work raised
ErrorStateJudgment ==
    [valid |-> FALSE, ready_to_proceed |-> FALSE, state_type |-> "error_state",
     silent_failure_detected |-> FALSE, regression_detected |-> FALSE]

\* the dicts StateValidatorAgent.validate_state returns: a parsed judgment
\* (from a browser that offers the snapshot methods it calls), or the
\* error_state judgment of its own handler
ValidationResults ==
    {[valid |-> v, ready_to_proceed |-> v, state_type |-> "url_state",
      silent_failure_detected |-> s, regression_detected |-> r] :
         v \in BOOLEAN, s \in BOOLEAN, r \in BOOLEAN}
    \cup {ErrorStateJudgment}

\* DriverCall with the type branch issuing a click
DriverCallTypeAsClick(step, url) ==
    LET action_type == Get(step, "action_type", "click")
        selector == Get(step, "selector", "")
    IN  IF action_type \in {"click", "type"}
          THEN <<[op |-> "click", args |-> <<selector>>]>>
        ELSE IF action_type = "navigate"
          THEN <<[op |-> "navigate", args |-> <<Get(step, "url", url)>>]>>
        ELSE <<>>

\* the driver operation _navigate_step issues for one planned action: none
\* for an action_type other than click, type and navigate
DriverCall(step, url) ==
    LET action_type == Get(step, "action_type", "click")
        selector == Get(step, "selector", "")
    IN  IF action_type = "click"
          THEN <<[op |-> "click", args |-> <<selector>>]>>
        ELSE IF action_type = "type"
          THEN <<[op |-> "type", args |-> <<selector, Get(step, "text", "")>>]>>
        ELSE IF action_type = "navigate"
          THEN <<[op |-> "navigate", args |-> <<Get(step, "url", url)>>]>>
        ELSE <<>>

\* a log entry of one driver operation; BrowserController is the primary
\* (Playwright) tier and the only one the workflow holds
DriverOp(step, call, ok) ==
    [step |-> step, op |-> call.op, args |-> call.args, tier |-> "primary", ok |-> ok]

----------------------------------------------------------------------------
(* AgentWorkflow.                                                          *)

NoResult == [pending |-> TRUE]
NoSync == [pending |-> TRUE]
NoCall == [op |-> "none"]

\* a ContextSyncAgent right after __init__, its remote store empty
FreshStore ==
    /\ context_version = 0
    /\ local_cache = <<>>
    /\ sync_history = <<>>
    /\ upstash = <<>>
    /\ now = 0
    /\ last_call = NoCall
    /\ stamps = <<>>
    /\ remote_answered = FALSE
    /\ saved = <<>>

\* the methods class BrowserController defines
BrowserControllerMethods ==
    { "start", "navigate", "click", "type", "screenshot", "wait_for_selector",
      "wait_for_load_state", "get_text", "get_url", "close" }

\* the browser methods validate_state calls before it asks for a judgment
ValidateStateCalls ==
    { "get_url", "get_text", "get_page_html", "capture_full_workflow_state",
      "detect_and_handle_modals", "detect_forms" }

\* a BrowserController lacks some of them: the call raises AttributeError
BrowserControllerSnapshots == ValidateStateCalls \subseteq BrowserControllerMethods

\* the dicts validate_state can return with the browser it was given
ValidationResultsWith(snapshots) ==
    IF snapshots THEN ValidationResults ELSE {ErrorStateJudgment}

\* seconds that pass during validate_state: the snapshot and the judgment
\* take time, a failing call fails at once
ValidationSeconds(validation) == IF validation = ErrorStateJudgment THEN 0 ELSE 1

\* StateValidatorAgent keeps the last 20 snapshots
StateHistoryCap == 20

\* history = history[-cap:] when it is longer than cap
KeepLast(history, cap) ==
    IF Len(history) > cap
    THEN SubSeq(history, Len(history) - cap + 1, Len(history))
    ELSE history

\* a StateValidatorAgent right after __init__
FreshValidator ==
    /\ state_history = <<>>
    /\ validation_count = 0
    /\ snapshot_log = <<>>

\* a document's path of iframe indexes from the top document; <<>> is the
\* top document (default content)
DefaultContent == <<>>

\* current_iframe: None as the empty set, an index i as {i}
NoIframe == {}

\* a SeleniumFallback whose driver has just loaded a page
FreshSelenium ==
    /\ driver_frame = DefaultContent
    /\ current_iframe = NoIframe

\* a second ContextSyncAgent right after __init__
FreshPeer == [context_version |-> 0, local_cache |-> <<>>, sync_history |-> <<>>]

\* the entry validate_state appends, by the time it was taken
Snapshot(timestamp) == [timestamp |-> timestamp]

StateHistoryAfterKeepOldest(history, validation, timestamp) ==
    IF validation = ErrorStateJudgment \/ Len(history) >= StateHistoryCap
    THEN history
    ELSE Append(history, Snapshot(timestamp))

\* state_history after a validate_state that returned `validation`: the
\* error_state judgment comes from the handler, which appends nothing
StateHistoryAfter(history, validation, timestamp) ==
    IF validation = ErrorStateJudgment
    THEN history
    ELSE KeepLast(Append(history, Snapshot(timestamp)), StateHistoryCap)

\* every snapshot ever appended, in order
SnapshotLogAfter(log, validation, timestamp) ==
    IF validation = ErrorStateJudgment THEN log ELSE Append(log, Snapshot(timestamp))

Init ==
    /\ pc = "idle"
    /\ max_steps \in MaxStepsValues
    /\ selenium_available \in BOOLEAN
    /\ ocr_available \in BOOLEAN
    /\ browser_snapshots = BrowserControllerSnapshots
    /\ app_url = "" /\ app_name = "" /\ task_name = ""
    /\ navigation_steps = <<>>
    /\ current_step = 0
    /\ screenshots = <<>>
    /\ state_valid = TRUE
    /\ completed = FALSE
    /\ error = None
    /\ result = NoResult
    /\ FreshStore
    /\ upstash_configured = FALSE
    /\ FreshValidator
    /\ peer = FreshPeer
    /\ FreshSelenium
    /\ iterations = 0
    /\ performed = <<>>
    /\ planner_calls = 0
    /\ absorbed = {}
    /\ last_sync = NoSync

\* execute(): a fresh WorkflowState filled with the call's arguments
execute ==
    /\ pc = "idle"
    /\ app_url' \in AppUrls
    /\ app_name' \in AppNames
    /\ task_name' \in TaskNames
    /\ navigation_steps' = <<>>
    /\ current_step' = 0
    /\ screenshots' = <<>>
    /\ state_valid' = TRUE
    /\ completed' = FALSE
    /\ error' = None
    /\ pc' = "loop"
    /\ UNCHANGED <<env_vars, store_vars, validator_vars, peer_vars, selenium_vars,
                   result, hist_vars>>

\* _should_continue testing the limit with > instead of >=
_should_continue_off_by_one ==
    IF completed \/ Truthy(error) THEN FALSE
    ELSE IF current_step > max_steps THEN FALSE
    ELSE TRUE

\* _should_continue without the step limit
_should_continue_no_limit ==
    IF completed \/ Truthy(error) THEN FALSE
    ELSE TRUE

\* _should_continue stopping on an invalid state as well
_should_continue_needs_valid ==
    IF completed \/ Truthy(error) THEN FALSE
    ELSE IF current_step >= max_steps THEN FALSE
    ELSE state_valid

_should_continue ==
    IF completed \/ Truthy(error) THEN FALSE
    ELSE IF current_step >= max_steps THEN FALSE
    ELSE TRUE

\* the while test of execute()
LoopTest ==
    /\ pc = "loop"
    /\ IF _should_continue
         THEN pc' = "navigate" /\ iterations' = iterations + 1
         ELSE pc' = "result" /\ UNCHANGED iterations
    /\ absorbed' = {}
    /\ last_sync' = NoSync
    /\ UNCHANGED <<wf_vars, env_vars, store_vars, validator_vars, peer_vars,
                   selenium_vars, result, performed,
                   planner_calls>>

\* AfterNavigate leaving the loop body as soon as navigation failed
AfterNavigateBreakOnError == IF error' # None THEN "loop" ELSE "screenshot"

\* where execute() goes after _navigate_step returns
AfterNavigate == "screenshot"

\* the cursor after an executed action: state.current_step += 1
NextCursor(c) == c + 1

\* a planner asked again in every loop body
PlannerDueAlways(step) == TRUE

\* `if state.current_step == 0:` the planner is asked while the cursor is 0
PlannerDue(step) == step = 0

\* _navigate_step: the planner on step 0, then the action under the cursor;
\* the handler turns any exception into error and completed
_navigate_step ==
    /\ pc = "navigate"
    /\ \E po \in (IF PlannerDue(current_step) THEN PlannerOutcomes ELSE {NoPlannerCall}) :
         LET steps == IF PlannerDue(current_step) /\ ~po.raised THEN po.plan ELSE navigation_steps
             in_range == current_step < Len(steps)
             step == steps[current_step + 1]
             is_dict == "nondict" \notin DOMAIN step
             call == DriverCall(step, app_url)
             calls_driver == ~po.raised /\ in_range /\ is_dict /\ call # <<>>
         IN  \E drv \in (IF calls_driver THEN CallOutcomes ELSE {Returned}) :
               /\ planner_calls' = IF PlannerDue(current_step) THEN planner_calls + 1
                                                                ELSE planner_calls
               /\ navigation_steps' = steps
               /\ performed' = IF calls_driver
                                 THEN Append(performed,
                                             DriverOp(current_step, call[1], ~drv.raised))
                                 ELSE performed
               /\ IF po.raised
                    THEN /\ error' = po.msg
                         /\ completed' = TRUE
                         /\ UNCHANGED current_step
                  ELSE IF in_range /\ ~is_dict
                    THEN /\ error' = AttributeErrorMessage
                         /\ completed' = TRUE
                         /\ UNCHANGED current_step
                  ELSE IF drv.raised
                    THEN /\ error' = drv.msg
                         /\ completed' = TRUE
                         /\ UNCHANGED current_step
                  ELSE IF in_range
                    THEN /\ current_step' = NextCursor(current_step)
                         /\ UNCHANGED <<error, completed>>
                  ELSE /\ completed' = TRUE
                       /\ UNCHANGED <<error, current_step>>
    /\ pc' = AfterNavigate
    /\ UNCHANGED <<app_url, app_name, task_name, screenshots, state_valid,
                   env_vars, store_vars, validator_vars, peer_vars, selenium_vars,
                   result, iterations, absorbed, last_sync>>

\* a screenshot handler that ends the workflow with the error
_screenshot_step_except_aborts(msg) ==
    /\ absorbed' = absorbed \cup {"screenshot"}
    /\ error' = msg
    /\ completed' = TRUE
    /\ UNCHANGED screenshots

\* the handler of _screenshot_step: the exception is logged, nothing else
_screenshot_step_except(msg) ==
    /\ absorbed' = absorbed \cup {"screenshot"}
    /\ UNCHANGED <<screenshots, completed, error>>

\* _screenshot_step: appends the captured path; a failure is only logged
_screenshot_step ==
    /\ pc = "screenshot"
    /\ \E o \in CallOutcomes :
         IF o.raised
           THEN _screenshot_step_except(o.msg)
           ELSE /\ screenshots' = Append(screenshots,
                                    get_screenshot_path(app_name, task_name, current_step))
                /\ UNCHANGED <<absorbed, completed, error>>
    /\ pc' = "validate"
    /\ UNCHANGED <<app_url, app_name, task_name, navigation_steps, current_step,
                   state_valid, env_vars, store_vars, validator_vars, peer_vars,
                   selenium_vars, result,
                   iterations, performed, planner_calls, last_sync>>

\* _validate_step: state_valid from the judgment, which is the error_state
\* one when validation failed inside validate_state; False as well when the
\* call itself raises
_validate_step ==
    /\ pc = "validate"
    /\ \/ \E validation \in ValidationResultsWith(browser_snapshots) :
            /\ state_valid' = Get(validation, "valid", FALSE)
            /\ absorbed' = IF validation = ErrorStateJudgment
                              THEN absorbed \cup {"validate"}
                              ELSE absorbed
            /\ validation_count' = validation_count + 1
            /\ state_history' = StateHistoryAfter(state_history, validation, now)
            /\ snapshot_log' = SnapshotLogAfter(snapshot_log, validation, now)
       \/ /\ state_valid' = FALSE
          /\ absorbed' = absorbed \cup {"validate"}
          /\ UNCHANGED validator_vars
    /\ pc' = "sync"
    /\ UNCHANGED <<app_url, app_name, task_name, navigation_steps, current_step,
                   screenshots, completed, error, env_vars, store_vars, peer_vars, selenium_vars,
                   result, iterations, performed, planner_calls, last_sync>>

\* _sync_context_step: builds the context (get_url may raise), then calls
\* context_sync.sync_context, a method ContextSyncAgent does not define; the
\* handler logs either exception
_sync_context_step ==
    /\ pc = "sync"
    /\ \E o \in CallOutcomes :
         LET lookup == IF "sync_context" \in ContextSyncAgentMethods
                         THEN Returned
                         ELSE Raised(AttributeErrorMessage)
         IN  /\ last_sync' = [url_ok |-> ~o.raised, step |-> current_step,
                              version_before |-> context_version,
                              workflow_id |-> WorkflowId(app_name, task_name)]
             /\ absorbed' = IF o.raised \/ lookup.raised
                               THEN absorbed \cup {"sync"}
                               ELSE absorbed
             /\ UNCHANGED <<store_vars, validator_vars, peer_vars, selenium_vars>>
    /\ pc' = "loop"
    /\ UNCHANGED <<wf_vars, env_vars, result, iterations, performed,
                   planner_calls>>

\* the result dict of execute(): assembled after the loop, or the handler's
\* dict when assembling it (get_url) raises
Return ==
    /\ pc = "result"
    /\ \E o \in CallOutcomes, u \in Urls :
         result' = IF o.raised
                     THEN [success |-> FALSE, screenshots |-> <<>>, error |-> o.msg]
                     ELSE [success |-> completed /\ ~Truthy(error),
                           screenshots |-> screenshots,
                           steps_completed |-> current_step,
                           error |-> error,
                           final_url |-> u]
    /\ pc' = "done"
    /\ UNCHANGED <<wf_vars, env_vars, store_vars, validator_vars, peer_vars,
                   selenium_vars, hist_vars>>

Next ==
    \/ execute
    \/ LoopTest
    \/ _navigate_step
    \/ _screenshot_step
    \/ _validate_step
    \/ _sync_context_step
    \/ Return

Spec == Init /\ [][Next]_vars

\* every awaited call returns, so the coroutine keeps running
FairSpec == Spec /\ WF_vars(Next)

----------------------------------------------------------------------------
(* Properties of the workflow loop.                                        *)

\* the driver operations issued for planned actions, in the order issued
\* the run is over and execute() assembled its result after the loop
ReturnedNormally == pc = "done" /\ "final_url" \in DOMAIN result

\* C1: current_step never decreases from one step of execute() to the next
\* and never exceeds max_steps, whatever the planner returns and whichever
\* steps fail.
C1_CursorMonotoneBounded ==
    [][ /\ current_step' >= current_step
        /\ current_step <= max_steps
        /\ current_step' <= max_steps ]_vars

\* C1 witness: a plan longer than max_steps stopped the cursor at the limit.
C1_Witness ==
    /\ pc = "done"
    /\ max_steps >= 1
    /\ current_step = max_steps
    /\ Len(navigation_steps) > max_steps

\* C2: execute() enters the loop body at most max_steps times (so also when
\* the action list is empty and no navigate-step does anything), and when
\* every awaited call returns it always reaches its terminal result.
C2_Terminates == [](iterations <= max_steps) /\ <>(pc = "done")

\* C2 witness: an empty action list ended the run after one loop body.
C2_Witness ==
    /\ pc = "done"
    /\ planner_calls = 1
    /\ navigation_steps = <<>>
    /\ error = None
    /\ iterations = 1
    /\ max_steps = 10

\* the planner reply of the two-action scenario
ScenarioPlan ==
    << [action_type |-> "click", selector |-> "#next"],
       [action_type |-> "type", selector |-> "#name", text |-> "Ada"] >>

\* the scenario: that plan, max_steps = 10, no driver operation failed
ScenarioRun ==
    /\ max_steps = 10
    /\ planner_calls = 1
    /\ navigation_steps = ScenarioPlan
    /\ \A i \in 1..Len(performed) : performed[i].ok

\* C3: with the plan [click "#next", type "#name" "Ada"], both actions
\* succeeding and max_steps = 10, a run that returns its assembled result has
\* issued exactly click("#next") then type("#name", "Ada"), has set completed
\* and returns steps_completed = 2, success = true and no error.
C3_TwoActionScenario ==
    (ScenarioRun /\ ReturnedNormally) =>
        /\ performed = << [step |-> 0, op |-> "click", args |-> <<"#next">>,
                           tier |-> "primary", ok |-> TRUE],
                          [step |-> 1, op |-> "type", args |-> <<"#name", "Ada">>,
                           tier |-> "primary", ok |-> TRUE] >>
        /\ completed
        /\ result.steps_completed = 2
        /\ result.success = TRUE
        /\ result.error = None

\* C3 witness: the scenario ran to its result.
C3_Witness == ScenarioRun /\ ReturnedNormally /\ iterations = 3

\* C4 (as claimed): once navigate-step caught an exception, error is set,
\* completed is true, and the terminal result has success = false and
\* reports an error.
C4_NavigateErrorFailsRun ==
    (error # None) =>
        /\ completed
        /\ (pc = "done" => result.success = FALSE /\ result.error # None)

\* C5: a step of screenshot, validate or sync whose work raised leaves
\* current_step, completed and error as they were and hands over to the
\* phase that follows it, as a successful step does.
C5_AbsorbedFailureKeepsGoing ==
    [][ (pc \in {"screenshot", "validate", "sync"} /\ absorbed' # absorbed) =>
          /\ current_step' = current_step
          /\ completed' = completed
          /\ error' = error
          /\ pc' = (CASE pc = "screenshot" -> "validate"
                      [] pc = "validate" -> "sync"
                      [] pc = "sync" -> "loop") ]_vars

\* C5 witness: all three steps of an iteration failed and the loop goes on.
C5_Witness ==
    /\ pc = "loop"
    /\ absorbed = {"screenshot", "validate", "sync"}
    /\ current_step = 1
    /\ _should_continue

\* C6 (as claimed): the returned dict always has a success flag, all the
\* screenshots collected and steps_completed, and an error string whenever
\* success is false.
C6_ResultAlwaysComplete ==
    pc = "done" =>
        /\ "success" \in DOMAIN result
        /\ "screenshots" \in DOMAIN result /\ result.screenshots = screenshots
        /\ "steps_completed" \in DOMAIN result
        /\ (result.success = FALSE => result.error # None)

\* C7: every iteration runs navigate, screenshot, validate, sync in that
\* order, one after the other, and the continuation test is made only on
\* entry and after a sync phase.
C7_PhaseOrder ==
    [][ /\ (pc = "navigate" => pc' = "screenshot")
        /\ (pc = "screenshot" => pc' = "validate")
        /\ (pc = "validate" => pc' = "sync")
        /\ (pc = "sync" => pc' = "loop")
        /\ (pc' = "loop" => pc \in {"idle", "sync"})
        /\ (pc' = "navigate" => pc = "loop")
        /\ (pc' = "result" => pc = "loop") ]_vars

\* C7 witness: a second iteration finished after a failed navigation whose
\* iteration still ran its other phases.
C7_Witness ==
    /\ pc = "loop"
    /\ iterations = 2
    /\ error # None
    /\ Len(screenshots) = 2

\* C8 (as claimed): a planned action the primary driver failed is retried
\* by a later tier exactly when a later tier is available.
C8_FallbackWhenAvailable ==
    \A i \in 1..Len(performed) :
        (performed[i].tier = "primary" /\ ~performed[i].ok) =>
            ( (selenium_available \/ ocr_available)
              <=> \E j \in (i + 1)..Len(performed) :
                      /\ performed[j].step = performed[i].step
                      /\ performed[j].tier \in {"secondary", "visual"} )

\* C9: a validate-step changes nothing of the workflow state but
\* state_valid, and the loop goes on exactly when completed and error are
\* unset and current_step is below max_steps, whatever state_valid and the
\* validator's flags are.
C9_ValidationNeverStops ==
    [][ /\ (pc = "validate" =>
              UNCHANGED <<navigation_steps, current_step, screenshots,
                          completed, error>>)
        /\ (pc = "loop" =>
              ((pc' = "navigate") <=>
                 (~completed /\ ~Truthy(error) /\ current_step < max_steps))) ]_vars

\* C9 witness: the loop went into another iteration with state_valid false.
C9_Witness ==
    /\ pc = "navigate"
    /\ iterations = 2
    /\ ~state_valid

\* C10 (as claimed): after an iteration whose sync step could read the
\* browser URL, the store's version counter is higher than before the step
\* and the local cache holds the workflow context of that step.
C10_SyncPushesContext ==
    (pc = "loop" /\ "url_ok" \in DOMAIN last_sync /\ last_sync.url_ok) =>
        /\ context_version > last_sync.version_before
        /\ WorkflowContextKey(last_sync.workflow_id, last_sync.step) \in DOMAIN local_cache


----------------------------------------------------------------------------
(* ContextSyncAgent: the versioned context store.                          *)

MaxSaves == 3

\* values a context mapping holds: text, numbers, and objects json cannot
\* encode (json.dumps(default=str) writes str(obj) for them)
Str(s) == [str |-> s]
Num(n) == [num |-> n]
Obj(repr) == [object |-> repr]
KeyStr(key) == [key |-> key]
\* a mapping that contains itself: json.dumps raises ValueError on it
Circular == [circular |-> TRUE]

\* get_context's None
NotFound == [not_found |-> TRUE]

\* {**a, **b}
Merge(a, b) ==
    [f \in DOMAIN a \cup DOMAIN b |-> IF f \in DOMAIN b THEN b[f] ELSE a[f]]

\* d[key] = value
Put(d, key, value) ==
    [k \in DOMAIN d \cup {key} |-> IF k = key THEN value ELSE d[k]]

\* key.startswith(prefix)
StartsWith(key, prefix) ==
    /\ Len(prefix) <= Len(key)
    /\ SubSeq(key, 1, Len(prefix)) = prefix

\* the fields save_context adds to the payload
Injected(version, timestamp, key) ==
    [_context_version |-> Num(version), _timestamp |-> Num(timestamp),
     _key |-> KeyStr(key)]

\* enriched_data = {**context_data, "_context_version": ..., ...}
Enrich(context_data, version, timestamp, key) ==
    Merge(context_data, Injected(version, timestamp, key))

\* what json.loads gives back for a value json.dumps(default=str) wrote
JsonValue(v) == IF DOMAIN v = {"object"} THEN Str(v.object) ELSE v

\* json.dumps(data, default=str): raises on a circular mapping, otherwise
\* the text, kept here as the mapping a decoder reads from it
json_dumps(data) ==
    IF \E f \in DOMAIN data : data[f] = Circular
    THEN Raised("Circular reference detected")
    ELSE [raised |-> FALSE, text |-> [f \in DOMAIN data |-> JsonValue(data[f])]]

\* json.loads(text)
json_loads(text) == text

\* len(context_json), in encoded fields
JsonLen(text) == Cardinality(DOMAIN text)

\* ContextSyncAgent keeps the last 50 sync events
SyncHistoryCap == 50

\* the outcomes of one HTTP request to the remote store
RemoteOutcomes == {"ok", "fail"}

\* UpstashSync.set: False without credentials or when the request failed
upstash_set(configured, remote) == configured /\ remote = "ok"

\* UpstashSync.get: the stored text, None without credentials, on a failed
\* request or for a key the store does not hold
upstash_get(configured, remote, store, key) ==
    IF configured /\ remote = "ok" /\ key \in DOMAIN store
    THEN store[key]
    ELSE NotFound

SaveVersionReuse(version) == IF version = 0 THEN 1 ELSE version

\* self.context_version += 1
SaveVersion(version) == version + 1

\* save_context returns True once the local write is done, whatever the
\* remote did
SaveReturn(upstash_success, critical) == "True"

idle_vars == <<pc, wf_vars, env_vars, validator_vars, peer_vars, selenium_vars,
              result, hist_vars>>

save_context(key, context_data, critical, remote) ==
    LET version == SaveVersion(context_version)
        enriched_data == Enrich(context_data, version, now, key)
        dumped == json_dumps(enriched_data)
        upstash_success == ~dumped.raised /\ upstash_set(upstash_configured, remote)
        event == [key |-> key, action |-> "save", version |-> version,
                  timestamp |-> now,
                  size_bytes |-> IF dumped.raised THEN 0 ELSE JsonLen(dumped.text)]
    IN  /\ context_version' = version
        /\ local_cache' = Put(local_cache, key, enriched_data)
        /\ upstash' = IF upstash_success
                      THEN Put(upstash, key, dumped.text)
                      ELSE upstash
        /\ sync_history' = KeepLast(Append(sync_history, event), SyncHistoryCap)
        /\ stamps' = Append(stamps, version)
        /\ saved' = Put(saved, key, enriched_data)
        /\ remote_answered' = (remote_answered \/ upstash_success)
        /\ last_call' = [op |-> "save", key |-> key, context_data |-> context_data,
                         critical |-> critical,
                         returned |-> SaveReturn(upstash_success, critical)]
        /\ UNCHANGED <<upstash_configured, now, idle_vars>>

GetFromRemoteOnly(use_cache, key, cache) == FALSE

\* if use_cache and key in self.local_cache
GetFromCache(use_cache, key, cache) == use_cache /\ key \in DOMAIN cache

KeepCacheOnRemoteHit(cache, key, context_data) == cache

\* self.local_cache[key] = context_data, on a remote hit
CacheRemoteHit(cache, key, context_data) == Put(cache, key, context_data)

\* what get_context(key, use_cache) returns from the cache `cache`, where
\* it found it, the cache it leaves, and whether the remote store answered
GetResult(cache, key, use_cache, remote) ==
    IF GetFromCache(use_cache, key, cache)
    THEN [source |-> "cache", record |-> cache[key], cache |-> cache,
          answered |-> FALSE]
    ELSE LET context_json == upstash_get(upstash_configured, remote, upstash, key)
             answered == upstash_configured /\ remote = "ok"
         IN  IF context_json # NotFound
             THEN [source |-> "remote", record |-> json_loads(context_json),
                   cache |-> CacheRemoteHit(cache, key, json_loads(context_json)),
                   answered |-> answered]
             ELSE [source |-> "none", record |-> NotFound, cache |-> cache,
                   answered |-> answered]

get_context(key, use_cache, remote) ==
    LET got == GetResult(local_cache, key, use_cache, remote)
    IN  /\ local_cache' = got.cache
        /\ remote_answered' = (remote_answered \/ got.answered)
        /\ last_call' = [op |-> "get", key |-> key, use_cache |-> use_cache,
                         source |-> got.source, record |-> got.record]
        /\ UNCHANGED <<context_version, sync_history, upstash_configured,
                       upstash, now, stamps, saved, idle_vars>>

\* d without the keys that start with prefix
WithoutPrefix(d, prefix) ==
    [k \in {j \in DOMAIN d : ~StartsWith(j, prefix)} |-> d[k]]

clear_workflow_context(workflow_id) ==
    /\ \E k \in DOMAIN local_cache : StartsWith(k, workflow_id)
    /\ local_cache' = WithoutPrefix(local_cache, workflow_id)
    /\ saved' = WithoutPrefix(saved, workflow_id)
    /\ last_call' = [op |-> "clear", workflow_id |-> workflow_id]
    /\ UNCHANGED <<context_version, sync_history, upstash_configured, upstash,
                   now, stamps, remote_answered, idle_vars>>

\* the workflows and keys of the store runs
StoreWorkflowIds == {WorkflowId("notion", "create_page"), WorkflowId("linear", "new_issue")}

StoreKeys ==
    { AgentStateKey(WorkflowId("notion", "create_page"), 0, "navigator"),
      WorkflowContextKey(WorkflowId("linear", "new_issue"), 0) }

\* payloads: plain text, a page object json cannot encode, a circular mapping
Payloads ==
    { [url |-> Str("https://app.example/")],
      [page |-> Obj("<Page url='https://app.example/'>")],
      [self |-> Circular] }

\* a workflow that is not running: the store is used on its own
IdleWorkflow ==
    /\ pc = "idle"
    /\ max_steps = 0
    /\ selenium_available = FALSE
    /\ ocr_available = FALSE
    /\ browser_snapshots = BrowserControllerSnapshots
    /\ app_url = None
    /\ app_name = None
    /\ task_name = None
    /\ navigation_steps = <<>>
    /\ current_step = 0
    /\ screenshots = <<>>
    /\ state_valid = FALSE
    /\ completed = FALSE
    /\ error = None
    /\ result = NoResult
    /\ iterations = 0
    /\ performed = <<>>
    /\ planner_calls = 0
    /\ absorbed = {}
    /\ last_sync = NoSync

InitStore ==
    /\ IdleWorkflow
    /\ FreshValidator
    /\ peer = FreshPeer
    /\ FreshSelenium
    /\ FreshStore
    /\ upstash_configured \in BOOLEAN

\* which remote outcomes can be told apart
RemoteChoices == IF upstash_configured THEN RemoteOutcomes ELSE {"fail"}

StoreSave ==
    /\ context_version < MaxSaves
    /\ \E key \in StoreKeys, context_data \in Payloads, critical \in BOOLEAN,
          remote \in RemoteChoices :
            save_context(key, context_data, critical, remote)

StoreGet ==
    \E key \in StoreKeys, use_cache \in BOOLEAN, remote \in RemoteChoices :
        get_context(key, use_cache, remote)

StoreClear == \E workflow_id \in StoreWorkflowIds : clear_workflow_context(workflow_id)

NextStore == StoreSave \/ StoreGet \/ StoreClear

SpecStore == InitStore /\ [][NextStore]_vars

----------------------------------------------------------------------------
(* Claims about the context store.                                         *)

\* C11: every save_context raises the version counter by exactly one and
\* stamps the new value, so the stamped versions are 1, 2, 3, ... in the
\* order of the saves: strictly increasing, none used twice, whatever the
\* keys, the remote outcomes and the get and clear calls in between; the
\* records of two keys never carry the same version.
C11_VersionsStrictlyIncrease ==
    /\ Len(stamps) = context_version
    /\ \A i \in DOMAIN stamps : stamps[i] = i
    /\ \A k \in DOMAIN saved :
          \E i \in DOMAIN stamps : saved[k]._context_version = Num(stamps[i])
    /\ \A k1, k2 \in DOMAIN saved :
          k1 # k2 => saved[k1]._context_version # saved[k2]._context_version

\* C11 witness: a third save has just been stamped, after a clear removed
\* the record of an earlier save and with saves whose remote write failed.
C11_Witness ==
    /\ last_call.op = "save"
    /\ Len(stamps) >= 3
    /\ \E i \in DOMAIN sync_history : sync_history[i].key \notin DOMAIN local_cache
    /\ \E k \in DOMAIN local_cache : k \notin DOMAIN upstash

\* the names of the fields save_context injects
InjectedFields == {"_context_version", "_timestamp", "_key"}

\* C12: a get_context(key) with the cache enabled that directly follows
\* save_context(key, payload) returns a record holding every field of the
\* payload with its value unchanged, plus _context_version (the version of
\* that save), _timestamp and _key, and no other field, whatever the remote
\* store did with the save.
C12_GetAfterSaveReturnsPayload ==
    [][ ( /\ last_call.op = "save"
          /\ last_call'.op = "get"
          /\ last_call'.use_cache
          /\ last_call'.key = last_call.key )
        => LET payload == last_call.context_data
               record == last_call'.record
           IN  /\ record # NotFound
               /\ DOMAIN record = DOMAIN payload \cup InjectedFields
               /\ \A f \in DOMAIN payload : record[f] = payload[f]
               /\ record._context_version = Num(context_version)
               /\ record._key = KeyStr(last_call.key)
               /\ record._timestamp = Num(now) ]_vars

\* C12 witness: a cached get returned the record of the latest save, whose
\* payload holds an object json cannot encode and whose remote write did
\* not happen.
C12_Witness ==
    /\ last_call.op = "get"
    /\ last_call.use_cache
    /\ last_call.source = "cache"
    /\ last_call.record._context_version = Num(context_version)
    /\ "page" \in DOMAIN last_call.record
    /\ last_call.record.page = Obj("<Page url='https://app.example/'>")
    /\ last_call.key \notin DOMAIN upstash

\* C13 (as claimed): while no request to the remote store has succeeded,
\* every save_context returns True (critical or not, none raises) and every
\* get_context returns the record of the latest save of its key, or
\* NotFound for a key with no saved record.
C13_LocalOnlyWhenRemoteDown ==
    ~remote_answered =>
        /\ (last_call.op = "save" => last_call.returned = "True")
        /\ (last_call.op = "get" =>
              last_call.record = IF last_call.key \in DOMAIN saved
                                 THEN saved[last_call.key]
                                 ELSE NotFound)

\* C14 (as claimed): after any sequence of save_context and get_context
\* calls the local cache entry of every key with a saved record is the
\* record the most recent save_context of that key wrote: it is present
\* and carries the version that save stamped.
C14_LocalCacheIsCurrent ==
    \A k \in DOMAIN saved :
        /\ k \in DOMAIN local_cache
        /\ local_cache[k]._context_version = saved[k]._context_version

\* C15: a get_context whose key is cached and whose use_cache is true
\* returns the cached record and sends no request to the remote store;
\* otherwise it asks the remote store, and a record found there is stored
\* in the local cache under the key and returned; NotFound is returned
\* exactly when neither the cache (if consulted) nor the remote store gave
\* a record; every get_context returns.
C15_GetCacheThenRemote ==
    [][ (last_call' # last_call /\ last_call'.op = "get")
        => LET key == last_call'.key
               record == last_call'.record
               in_cache == last_call'.use_cache /\ key \in DOMAIN local_cache
           IN  /\ last_call'.source \in {"cache", "remote", "none"}
               /\ in_cache <=> last_call'.source = "cache"
               /\ in_cache => /\ record = local_cache[key]
                              /\ local_cache' = local_cache
                              /\ remote_answered' = remote_answered
               /\ last_call'.source = "remote" =>
                    /\ upstash_configured
                    /\ key \in DOMAIN upstash
                    /\ record = json_loads(upstash[key])
                    /\ key \in DOMAIN local_cache'
                    /\ local_cache'[key] = record
               /\ record = NotFound <=> last_call'.source = "none"
               /\ last_call'.source = "none" => local_cache' = local_cache ]_vars

\* C15 witness: a get with the cache enabled missed the cache (the record
\* had been cleared), found the record in the remote store and cached it.
C15_Witness ==
    /\ last_call.op = "get"
    /\ last_call.use_cache
    /\ last_call.source = "remote"
    /\ last_call.key \in DOMAIN local_cache
    /\ local_cache[last_call.key] = last_call.record
    /\ last_call.key \notin DOMAIN saved

----------------------------------------------------------------------------
(* ContextSyncAgent: agent states, workflow contexts and desync detection. *)

MaxDesyncSaves == 7
MaxNow == 61

\* a nested mapping as a value of a context mapping
Dict(d) == [dict |-> d]

\* detect_desync: more than 5 versions apart is a mismatch
VersionDriftLimit == 5

\* detect_desync: an agent state more than 60 seconds older is stale
StaleSeconds == 60

Abs(n) == IF n < 0 THEN -n ELSE n

\* last_synced_step: None, or a step
NoStep == [none |-> TRUE]
StepValue(step) == [step |-> step]

\* `not record`: a record of the store holds the injected fields, so only
\* None is falsy
RecordMissing(record) == record = NotFound

VersionMismatchAtLimit(agent_version, workflow_version) ==
    Abs(agent_version - workflow_version) >= VersionDriftLimit

\* abs(agent_version - workflow_version) > 5
VersionMismatch(agent_version, workflow_version) ==
    Abs(agent_version - workflow_version) > VersionDriftLimit

StaleEitherWay(agent_timestamp, workflow_timestamp) ==
    Abs(workflow_timestamp - agent_timestamp) > StaleSeconds

\* workflow_timestamp - agent_timestamp > 60
Stale(agent_timestamp, workflow_timestamp) ==
    workflow_timestamp - agent_timestamp > StaleSeconds

\* the dict detect_desync returns for the two records it read
DesyncReport(agent_state, workflow_context, at_step) ==
    IF RecordMissing(agent_state)
    THEN [desynced |-> TRUE, reason |-> "no agent state",
          last_synced_step |-> NoStep]
    ELSE IF RecordMissing(workflow_context)
    THEN [desynced |-> TRUE, reason |-> "no workflow context",
          last_synced_step |-> NoStep]
    ELSE LET agent_version == Get(agent_state, "_context_version", Num(0)).num
             workflow_version == Get(workflow_context, "_context_version", Num(0)).num
             agent_timestamp == Get(agent_state, "_timestamp", Num(0)).num
             workflow_timestamp == Get(workflow_context, "_timestamp", Num(0)).num
         IN  IF VersionMismatch(agent_version, workflow_version)
             THEN [desynced |-> TRUE, reason |-> "version mismatch",
                   last_synced_step |-> StepValue(at_step)]
             ELSE IF Stale(agent_timestamp, workflow_timestamp)
             THEN [desynced |-> TRUE, reason |-> "stale state",
                   last_synced_step |-> StepValue(at_step)]
             ELSE [desynced |-> FALSE, reason |-> "in sync",
                   last_synced_step |-> StepValue(at_step)]

\* sync_agent_state: save_context under the agent's key of the step
sync_agent_state(workflow_id, step, agent_name, agent_state, remote) ==
    save_context(AgentStateKey(workflow_id, step, agent_name), agent_state,
                 FALSE, remote)

\* the mapping sync_workflow_context builds from its (absent) arguments
WorkflowContextOf(workflow_id, step) ==
    [workflow_id |-> KeyStr(workflow_id), step |-> Num(step),
     navigation |-> Dict(<<>>), screenshot |-> Dict(<<>>),
     validation |-> Dict(<<>>), browser |-> Dict(<<>>), synced_at |-> Num(now)]

\* sync_workflow_context: a critical save_context under the workflow's key
sync_workflow_context(workflow_id, step, remote) ==
    save_context(WorkflowContextKey(workflow_id, step),
                 WorkflowContextOf(workflow_id, step), TRUE, remote)

\* detect_desync reads the agent state, then the workflow context, both
\* through get_context with the cache enabled
detect_desync(workflow_id, at_step, agent_name, remote_agent, remote_workflow) ==
    LET agent == GetResult(local_cache,
                           AgentStateKey(workflow_id, at_step, agent_name),
                           TRUE, remote_agent)
        workflow == GetResult(agent.cache,
                              WorkflowContextKey(workflow_id, at_step),
                              TRUE, remote_workflow)
    IN  /\ local_cache' = workflow.cache
        /\ remote_answered' = (remote_answered \/ agent.answered \/ workflow.answered)
        /\ last_call' = [op |-> "detect", workflow_id |-> workflow_id,
                         current_step |-> at_step,
                         agent_state |-> agent.record,
                         workflow_context |-> workflow.record,
                         report |-> DesyncReport(agent.record, workflow.record,
                                                 at_step)]
        /\ UNCHANGED <<context_version, sync_history, upstash_configured,
                       upstash, now, stamps, saved, idle_vars>>

\* time passes
Ticks == {60, 61}

Tick ==
    /\ \E d \in Ticks : now + d <= MaxNow /\ now' = now + d
    /\ UNCHANGED <<context_version, local_cache, sync_history,
                   upstash_configured, upstash, last_call, stamps,
                   remote_answered, saved, idle_vars>>

DesyncWorkflowId == WorkflowId("notion", "create_page")
DesyncSteps == {0, 1}
SyncedStep == 1

\* a store without remote credentials (the environment sets none)
InitDesync ==
    /\ IdleWorkflow
    /\ FreshValidator
    /\ peer = FreshPeer
    /\ FreshSelenium
    /\ FreshStore
    /\ upstash_configured = FALSE

DesyncSyncAgent ==
    /\ context_version < MaxDesyncSaves
    /\ sync_agent_state(DesyncWorkflowId, SyncedStep, "navigator",
                        [url |-> Str("https://app.example/")], "fail")

DesyncSyncWorkflow ==
    /\ context_version < MaxDesyncSaves
    /\ sync_workflow_context(DesyncWorkflowId, SyncedStep, "fail")

DesyncDetect ==
    \E at_step \in DesyncSteps :
        detect_desync(DesyncWorkflowId, at_step, "navigator", "fail", "fail")

NextDesync == DesyncSyncAgent \/ DesyncSyncWorkflow \/ DesyncDetect \/ Tick

SpecDesync == InitDesync /\ [][NextDesync]_vars

\* the versions and timestamps of the two records a detect_desync read
BothPresent ==
    /\ last_call.op = "detect"
    /\ last_call.agent_state # NotFound
    /\ last_call.workflow_context # NotFound

AgentVersion == last_call.agent_state._context_version.num
WorkflowVersion == last_call.workflow_context._context_version.num
AgentTimestamp == last_call.agent_state._timestamp.num
WorkflowTimestamp == last_call.workflow_context._timestamp.num

\* C16: when detect_desync read both records and their timestamps are at
\* most 60 seconds apart, it reports desynced = true if the versions are
\* more than 5 apart and desynced = false if they are exactly 5 or less
\* apart.
C16_VersionBoundary ==
    (BothPresent /\ Abs(WorkflowTimestamp - AgentTimestamp) <= 60) =>
        (last_call.report.desynced <=> Abs(AgentVersion - WorkflowVersion) > 5)

\* C16 witness: the records are exactly 5 versions apart and detect_desync
\* reported in sync.
C16_Witness ==
    /\ BothPresent
    /\ Abs(WorkflowTimestamp - AgentTimestamp) <= 60
    /\ Abs(AgentVersion - WorkflowVersion) = 5
    /\ ~last_call.report.desynced

\* C17: detect_desync reports desynced = true exactly when it found no
\* agent state, or no workflow context, or versions more than 5 apart, or
\* a workflow timestamp more than 60 seconds after the agent timestamp;
\* last_synced_step is None in the two missing cases and the current step
\* in every other case.
C17_DesyncIff ==
    last_call.op = "detect" =>
        LET missing == \/ last_call.agent_state = NotFound
                       \/ last_call.workflow_context = NotFound
        IN  /\ last_call.report.desynced <=>
                  \/ missing
                  \/ Abs(AgentVersion - WorkflowVersion) > 5
                  \/ WorkflowTimestamp - AgentTimestamp > 60
            /\ last_call.report.last_synced_step =
                  IF missing THEN NoStep ELSE StepValue(last_call.current_step)

\* C17 witness: the agent state is 61 seconds newer than the workflow
\* context, the versions are close, and detect_desync reported in sync
\* with last_synced_step the current step.
C17_Witness ==
    /\ BothPresent
    /\ AgentTimestamp - WorkflowTimestamp = 61
    /\ Abs(AgentVersion - WorkflowVersion) <= 5
    /\ ~last_call.report.desynced
    /\ last_call.report.last_synced_step = StepValue(1)

----------------------------------------------------------------------------
(* The bounded histories of the store and of the validator.                *)

MaxHistorySaves == 52
MaxValidations == 22

\* StateValidatorAgent.validate_state, returning `validation`
validate_state(validation) ==
    /\ validation_count' = validation_count + 1
    /\ now' = now + ValidationSeconds(validation)
    /\ state_history' = StateHistoryAfter(state_history, validation, now')
    /\ snapshot_log' = SnapshotLogAfter(snapshot_log, validation, now')
    /\ last_call' = [op |-> "validate",
                     appended |-> validation # ErrorStateJudgment]
    /\ UNCHANGED <<pc, wf_vars, env_vars, peer_vars, selenium_vars, result, hist_vars,
                   context_version, local_cache, sync_history,
                   upstash_configured, upstash, stamps, remote_answered, saved>>

\* a store without remote credentials and a validator that was given either
\* a BrowserController or a browser that offers every snapshot method
InitHistory ==
    /\ pc = "idle"
    /\ max_steps = 0
    /\ selenium_available = FALSE
    /\ ocr_available = FALSE
    /\ browser_snapshots \in BOOLEAN
    /\ app_url = None
    /\ app_name = None
    /\ task_name = None
    /\ navigation_steps = <<>>
    /\ current_step = 0
    /\ screenshots = <<>>
    /\ state_valid = FALSE
    /\ completed = FALSE
    /\ error = None
    /\ result = NoResult
    /\ iterations = 0
    /\ performed = <<>>
    /\ planner_calls = 0
    /\ absorbed = {}
    /\ last_sync = NoSync
    /\ FreshStore
    /\ upstash_configured = FALSE
    /\ FreshValidator
    /\ peer = FreshPeer
    /\ FreshSelenium

\* the store and the validator share nothing but the clock: the saves are
\* made first, the validations after them
HistorySave ==
    /\ context_version < MaxHistorySaves
    /\ validation_count = 0
    /\ \E critical \in BOOLEAN :
          save_context(WorkflowContextKey(WorkflowId("notion", "create_page"), 0),
                       [url |-> Str("https://app.example/")], critical, "fail")

\* the judgment of a page that is in order
SoundJudgment ==
    [valid |-> TRUE, ready_to_proceed |-> TRUE, state_type |-> "url_state",
     silent_failure_detected |-> FALSE, regression_detected |-> FALSE]

HistoryValidate ==
    /\ validation_count < MaxValidations
    /\ \E validation \in ValidationResultsWith(browser_snapshots)
                            \cap {SoundJudgment, ErrorStateJudgment} :
          validate_state(validation)

NextHistory == HistorySave \/ HistoryValidate

SpecHistory == InitHistory /\ [][NextHistory]_vars

\* `history` is the last (at most cap) entries of `log`, in the log's order
IsTailOf(history, log, cap) ==
    /\ Len(history) = (IF Len(log) > cap THEN cap ELSE Len(log))
    /\ \A i \in DOMAIN history : history[i] = log[Len(log) - Len(history) + i]

\* C18: the sync history never holds more than 50 events and the state
\* history never more than 20 snapshots; each holds the most recent
\* entries it was given, in the order they were given, so what a full
\* history drops is its oldest entries.
C18_HistoriesBounded ==
    /\ Len(sync_history) <= 50
    /\ Len(state_history) <= 20
    /\ IsTailOf([i \in DOMAIN sync_history |-> sync_history[i].version], stamps, 50)
    /\ IsTailOf(state_history, snapshot_log, 20)

\* C18 witness: after 52 saves and 22 appended snapshots both histories
\* are full and start with their third entry.
C18_Witness ==
    /\ Len(stamps) >= 52
    /\ Len(sync_history) = 50
    /\ sync_history[1].version = Len(stamps) - 49
    /\ Len(snapshot_log) >= 22
    /\ Len(state_history) = 20
    /\ state_history[1] = snapshot_log[Len(snapshot_log) - 19]
    /\ state_history[1] # snapshot_log[1]

----------------------------------------------------------------------------
(* Two workflow instances in one process, each with the ContextSyncAgent   *)
(* its constructor made; they share the remote store.                      *)

MaxInstanceSaves == 2

ProcessWideCounter(own, other) == IF own > other THEN own ELSE other

\* self.context_version: the counter of the instance the call goes through
OwnCounter(own, other) == own

\* save_context through the second instance
peer_save_context(key, context_data, critical, remote) ==
    LET version == SaveVersion(OwnCounter(peer.context_version, context_version))
        enriched_data == Enrich(context_data, version, now, key)
        dumped == json_dumps(enriched_data)
        upstash_success == ~dumped.raised /\ upstash_set(upstash_configured, remote)
        event == [key |-> key, action |-> "save", version |-> version,
                  timestamp |-> now,
                  size_bytes |-> IF dumped.raised THEN 0 ELSE JsonLen(dumped.text)]
    IN  /\ peer' = [context_version |-> version,
                    local_cache |-> Put(peer.local_cache, key, enriched_data),
                    sync_history |-> KeepLast(Append(peer.sync_history, event),
                                              SyncHistoryCap)]
        /\ upstash' = IF upstash_success
                      THEN Put(upstash, key, dumped.text)
                      ELSE upstash
        /\ remote_answered' = (remote_answered \/ upstash_success)
        /\ last_call' = [op |-> "peer_save", key |-> key,
                         returned |-> SaveReturn(upstash_success, critical)]
        /\ UNCHANGED <<context_version, local_cache, sync_history,
                       upstash_configured, now, stamps, saved, pc, wf_vars,
                       env_vars, validator_vars, selenium_vars, result, hist_vars>>

\* get_context through the second instance
peer_get_context(key, use_cache, remote) ==
    LET got == GetResult(peer.local_cache, key, use_cache, remote)
    IN  /\ peer' = [peer EXCEPT !.local_cache = got.cache]
        /\ remote_answered' = (remote_answered \/ got.answered)
        /\ last_call' = [op |-> "peer_get", key |-> key, use_cache |-> use_cache,
                         source |-> got.source, record |-> got.record]
        /\ UNCHANGED <<context_version, local_cache, sync_history,
                       upstash_configured, upstash, now, stamps, saved, pc,
                       wf_vars, env_vars, validator_vars, selenium_vars, result, hist_vars>>

\* both instances run the same workflow, so they use the same key
InstanceKey == WorkflowContextKey(WorkflowId("notion", "create_page"), 0)

InstancePayloads ==
    { [url |-> Str("https://app.example/")],
      [url |-> Str("https://app.example/new")] }

InitInstances ==
    /\ IdleWorkflow
    /\ FreshStore
    /\ FreshValidator
    /\ peer = FreshPeer
    /\ FreshSelenium
    /\ upstash_configured \in BOOLEAN

InstanceSave ==
    /\ context_version < MaxInstanceSaves
    /\ \E context_data \in InstancePayloads, remote \in RemoteChoices :
          save_context(InstanceKey, context_data, FALSE, remote)

InstanceGet ==
    \E use_cache \in BOOLEAN, remote \in RemoteChoices :
        get_context(InstanceKey, use_cache, remote)

PeerSave ==
    /\ peer.context_version < MaxInstanceSaves
    /\ \E context_data \in InstancePayloads, remote \in RemoteChoices :
          peer_save_context(InstanceKey, context_data, FALSE, remote)

PeerGet ==
    \E use_cache \in BOOLEAN, remote \in RemoteChoices :
        peer_get_context(InstanceKey, use_cache, remote)

NextInstances == InstanceSave \/ InstanceGet \/ PeerSave \/ PeerGet

SpecInstances == InitInstances /\ [][NextInstances]_vars

----------------------------------------------------------------------------
(* SeleniumFallback: finding an element in the document, its iframes and   *)
(* its shadow DOM.                                                         *)

\* the documents of the page: the top document, two iframes in it, and an
\* iframe inside the first of them
PageFrames == {DefaultContent, <<0>>, <<1>>, <<0, 0>>}

\* the indexes an iframe can have in its document
IframeIndexes == {0, 1}

\* driver.find_elements(By.TAG_NAME, "iframe") in the document `frame`: the
\* iframes of that document only, in document order, by index
Iframes(frame) ==
    LET n == Cardinality({i \in IframeIndexes : Append(frame, i) \in PageFrames})
    IN  [j \in 1..n |-> j - 1]

\* the locators a caller passes, as token sequences: an id-like CSS selector,
\* a word that is also a valid CSS type selector, and a text that is not
\* valid CSS
Selectors == {<<"#", "pay">>, <<"Pay">>, <<"Pay", "!">>}

\* selector.replace(old, '')
Replace(selector, old) == SelectSeq(selector, LAMBDA c : c # old)

\* the driver rejects a malformed CSS selector with InvalidSelectorException,
\* which is neither TimeoutException nor NoSuchElementException
InvalidCss(selector) == \E i \in 1..Len(selector) : selector[i] = "!"

\* the entry of the strategies list that is None
NoStrategy == [by |-> "none"]

\* the By of each entry of the strategies list
StrategyBys == {"css", "id", "button_text", "link_text", "any_text",
                "aria_label", "placeholder"}

\* a strategies list whose text strategies come after the attribute ones
StrategiesTextLast(selector) ==
    << [by |-> "css", value |-> selector],
       IF StartsWith(selector, <<"#">>)
       THEN [by |-> "id", value |-> Replace(selector, "#")]
       ELSE NoStrategy,
       [by |-> "aria_label", value |-> selector],
       [by |-> "placeholder", value |-> selector],
       [by |-> "button_text", value |-> selector],
       [by |-> "link_text", value |-> selector],
       [by |-> "any_text", value |-> selector] >>

\* the strategies list of _try_find_in_context, in its order
Strategies(selector) ==
    << [by |-> "css", value |-> selector],
       IF StartsWith(selector, <<"#">>)
       THEN [by |-> "id", value |-> Replace(selector, "#")]
       ELSE NoStrategy,
       [by |-> "button_text", value |-> selector],
       [by |-> "link_text", value |-> selector],
       [by |-> "any_text", value |-> selector],
       [by |-> "aria_label", value |-> selector],
       [by |-> "placeholder", value |-> selector] >>

\* the strategies whose locator is present in the document that holds the
\* element: one strategy, or two of them
HitChoices == {{a, b} : a, b \in StrategyBys}

\* where the element the selector names is: in the DOM of a document (with
\* the strategies whose locator is present there), in a shadow root of a
\* document, or nowhere
ElementPlaces ==
    {[kind |-> "dom", frame |-> f, hits |-> h] :
        f \in PageFrames, h \in HitChoices}
    \cup {[kind |-> "shadow", frame |-> f, hits |-> {}] : f \in PageFrames}
    \cup {[kind |-> "absent", frame |-> DefaultContent, hits |-> {}]}

\* the iframes that are gone when the driver tries to switch to them
DetachedChoices == {{}, {<<0>>}, {<<1>>}}

\* no element
NoElement == "<no element>"

\* the locators present in the document `frame`
HitsIn(frame, place) ==
    IF place.kind = "dom" /\ place.frame = frame THEN place.hits ELSE {}

\* a wait whose TimeoutException is not caught by the loop
WaitUntilTimeoutUncaught(strategy, selector, hits) ==
    IF strategy.by \in hits /\ ~(strategy.by = "css" /\ InvalidCss(selector))
    THEN "located"
    ELSE "invalid"

\* wait.until(EC.presence_of_element_located((by, value))): the element the
\* locator names, TimeoutException when it does not appear, or the driver's
\* error for a locator it cannot evaluate
WaitUntil(strategy, selector, hits) ==
    IF strategy.by = "css" /\ InvalidCss(selector) THEN "invalid"
    ELSE IF strategy.by \in hits THEN "located"
    ELSE "timeout"

\* the for loop of _try_find_in_context over the strategies left
RECURSIVE StrategyLoop(_, _, _, _)
StrategyLoop(strategies, selector, hits, tried) ==
    IF strategies = <<>>
    THEN [element |-> NoElement, raised |-> FALSE, tried |-> tried]
    ELSE LET strategy == Head(strategies)
         IN  IF strategy = NoStrategy
             THEN \* if value is None: continue
                  StrategyLoop(Tail(strategies), selector, hits, tried)
             ELSE LET outcome == WaitUntil(strategy, selector, hits)
                      now_tried == Append(tried, strategy.by)
                  IN  IF outcome = "located"
                      THEN [element |-> strategy.by, raised |-> FALSE,
                            tried |-> now_tried]
                      ELSE IF outcome = "timeout"
                      THEN StrategyLoop(Tail(strategies), selector, hits,
                                        now_tried)
                      ELSE \* not caught by the except clause
                           [element |-> NoElement, raised |-> TRUE,
                            tried |-> now_tried]

\* _try_find_in_context in the document the driver is switched to: the
\* element of the first strategy that locates one
_try_find_in_context(selector, frame, place) ==
    StrategyLoop(Strategies(selector), selector, HitsIn(frame, place), <<>>)

\* _search_shadow_dom: the script walks the shadow roots of the current
\* document with querySelector; whatever it throws is caught
_search_shadow_dom(selector, frame, place) ==
    /\ ~InvalidCss(selector)
    /\ place.kind = "shadow"
    /\ place.frame = frame

\* the loop of _search_in_iframes over the iframes `rest` of the document
\* `origin`, the driver being in `here` with current_iframe `cur`
RECURSIVE SearchLoop(_, _, _, _, _, _, _)
SearchLoop(selector, origin, here, rest, cur, place, detached) ==
    IF rest = <<>>
    THEN \* after the loop: default_content(), current_iframe = None
         [found |-> FALSE, frame |-> DefaultContent, current_iframe |-> NoIframe,
          element |-> NoElement, tried |-> <<>>]
    ELSE LET i == Head(rest)
             child == Append(origin, i)
             in_child == _try_find_in_context(selector, child, place)
         IN  IF here # origin
             THEN \* the iframe handle belongs to a document the driver has
                  \* left: the switch fails, the outer handler resets
                  [found |-> FALSE, frame |-> DefaultContent,
                   current_iframe |-> cur, element |-> NoElement,
                   tried |-> <<>>]
             ELSE IF child \in detached
             THEN \* NoSuchFrameException: default_content(), continue
                  SearchLoop(selector, origin, DefaultContent, Tail(rest), cur,
                             place, detached)
             ELSE IF in_child.raised
             THEN \* the outer handler: default_content()
                  [found |-> FALSE, frame |-> DefaultContent,
                   current_iframe |-> {i}, element |-> NoElement,
                   tried |-> in_child.tried]
             ELSE IF in_child.element # NoElement
             THEN \* return element, the driver still in the iframe
                  [found |-> TRUE, frame |-> child, current_iframe |-> {i},
                   element |-> in_child.element, tried |-> in_child.tried]
             ELSE \* parent_frame()
                  SearchLoop(selector, origin, origin, Tail(rest), {i}, place,
                             detached)

\* _search_in_iframes from the document the driver is in
_search_in_iframes(selector, frame, cur, place, detached) ==
    SearchLoop(selector, frame, frame, Iframes(frame), cur, place, detached)

\* _find_element_with_fallbacks: the current document, then its iframes (if
\* enabled), then the shadow DOM of the document the driver is then in;
\* `searched` lists the levels it went through
_find_element_with_fallbacks(selector, frame, cur, place, search_iframes, detached) ==
    LET in_main == _try_find_in_context(selector, frame, place)
    IN  IF in_main.raised
        THEN [found |-> FALSE, raised |-> TRUE, level |-> "document",
              frame |-> frame, current_iframe |-> cur, element |-> NoElement,
              tried |-> in_main.tried, searched |-> <<"document">>]
        ELSE IF in_main.element # NoElement
        THEN [found |-> TRUE, raised |-> FALSE, level |-> "document",
              frame |-> frame, current_iframe |-> cur,
              element |-> in_main.element, tried |-> in_main.tried,
              searched |-> <<"document">>]
        ELSE LET in_frames ==
                     IF search_iframes
                     THEN _search_in_iframes(selector, frame, cur, place, detached)
                     ELSE [found |-> FALSE, frame |-> frame,
                           current_iframe |-> cur, element |-> NoElement,
                           tried |-> <<>>]
                 levels == IF search_iframes THEN <<"document", "iframe">>
                           ELSE <<"document">>
             IN  IF in_frames.found
                 THEN [found |-> TRUE, raised |-> FALSE, level |-> "iframe",
                       frame |-> in_frames.frame,
                       current_iframe |-> in_frames.current_iframe,
                       element |-> in_frames.element,
                       tried |-> in_frames.tried, searched |-> levels]
                 ELSE LET in_shadow ==
                              _search_shadow_dom(selector, in_frames.frame, place)
                      IN  [found |-> in_shadow, raised |-> FALSE,
                           level |-> "shadow", frame |-> in_frames.frame,
                           current_iframe |-> in_frames.current_iframe,
                           element |-> IF in_shadow THEN "shadow" ELSE NoElement,
                           tried |-> <<>>,
                           searched |-> Append(levels, "shadow")]

store_idle_vars == <<context_version, local_cache, sync_history, upstash_configured,
                     upstash, now, stamps, remote_answered, saved>>

\* the calls made with one document layout: every frame layout with a
\* plain CSS match, every strategy pair with the plain layout
SearchIframesChoices(place) ==
    IF place.hits \subseteq {"css"} THEN BOOLEAN ELSE {TRUE}

DetachedFor(place) ==
    IF place.hits \subseteq {"css"} THEN DetachedChoices ELSE {{}}

\* a caller (click, type, hover, ...) looks an element up
Find ==
    \E selector \in Selectors, place \in ElementPlaces :
    \E search_iframes \in SearchIframesChoices(place),
       detached \in DetachedFor(place) :
        /\ last_call' =
               [op |-> "find", before |-> driver_frame, selector |-> selector,
                place |-> place, search_iframes |-> search_iframes,
                detached |-> detached]
               @@ _find_element_with_fallbacks(selector, driver_frame,
                                               current_iframe, place,
                                               search_iframes, detached)
        /\ driver_frame' = last_call'.frame
        /\ current_iframe' = last_call'.current_iframe
        /\ UNCHANGED <<pc, wf_vars, env_vars, validator_vars, peer_vars,
                       result, hist_vars, store_idle_vars>>

\* start(url): a new driver is in the top document of the page it loads
SeleniumStart ==
    /\ driver_frame' = DefaultContent
    /\ last_call' = [op |-> "start"]
    /\ UNCHANGED <<current_iframe, pc, wf_vars, env_vars, validator_vars,
                   peer_vars, result, hist_vars, store_idle_vars>>

InitResolver ==
    /\ IdleWorkflow
    /\ FreshStore
    /\ upstash_configured = FALSE
    /\ FreshValidator
    /\ peer = FreshPeer
    /\ FreshSelenium

NextResolver == Find \/ SeleniumStart

SpecResolver == InitResolver /\ [][NextResolver]_vars

\* C20 (as claimed): when _find_element_with_fallbacks has returned, found
\* or not, the driver is switched to the document it was switched to when
\* the call was made.
C20_FrameContextRestored ==
    last_call.op = "find" => driver_frame = last_call.before

\* C21 (as claimed): an element that exists only inside a frame nested within
\* another frame (depth 2 or more below the document the search starts in)
\* is found by a search that looks into iframes and meets no detached frame.
C21_NestedFrameFound ==
    (/\ last_call.op = "find"
     /\ last_call.search_iframes
     /\ last_call.detached = {}
     /\ last_call.place.kind = "dom"
     /\ Len(last_call.place.frame) >= Len(last_call.before) + 2
     /\ StartsWith(last_call.place.frame, last_call.before))
    => last_call.found

\* the order of strategies the specification gives for a locator, the
\* id-normalized one only for an id-like locator
DocumentedOrder(selector) ==
    IF Len(selector) > 0 /\ Head(selector) = "#"
    THEN <<"css", "id", "button_text", "link_text", "any_text", "aria_label",
           "placeholder">>
    ELSE <<"css", "button_text", "link_text", "any_text", "aria_label",
           "placeholder">>

SearchLevels == <<"document", "iframe", "shadow">>

max_retries == 3

\* the text type is asked to enter, character by character
TypedText == <<"a", "b">>

\* what the interaction with a located element ends in: `error` is "ok" or
\* the exception the native interaction raises, `script` what the
\* JavaScript click does if it is made, `typed` how many characters
\* send_keys has delivered when the exception is raised
Outcome(raises, script, typed) ==
    [error |-> raises, script |-> script, typed |-> typed]

ClickOutcomes ==
    {Outcome("ok", "ok", 0),
     Outcome("StaleElementReferenceException", "ok", 0),
     Outcome("TimeoutException", "ok", 0),
     Outcome("WebDriverException", "ok", 0),
     Outcome("ElementClickInterceptedException", "ok", 0),
     Outcome("ElementClickInterceptedException", "JavascriptException", 0)}

TypeOutcomes ==
    {Outcome("ok", "ok", Len(TypedText)),
     Outcome("StaleElementReferenceException", "ok", 0),
     Outcome("StaleElementReferenceException", "ok", 1),
     Outcome("WebDriverException", "ok", Len(TypedText))}

\* the locators and page layouts of the interaction calls
InteractSelectors == {<<"#", "pay">>, <<"Pay", "!">>}

InteractPlaces ==
    {[kind |-> "dom", frame |-> DefaultContent, hits |-> {"css"}],
     [kind |-> "dom", frame |-> <<0>>, hits |-> {"css"}],
     [kind |-> "absent", frame |-> DefaultContent, hits |-> {}]}

\* the state argument of wait_for_element
WaitStates == {"visible", "clickable", "present", "enabled"}

\* an attempt that is never repeated
RetryNever(attempt) == FALSE

\* `if attempt < max_retries - 1: continue`, the same in both handlers
Retry(attempt) == attempt < max_retries - 1

\* an intercepted click that is not followed by a script click
NoJsClickFallback(outcome) == [res |-> outcome.error, script_clicks |-> 0]

\* the inner handler of click: driver.execute_script("arguments[0].click();")
\* once, in the same attempt; what it raises leaves the try block
JsClickFallback(outcome) == [res |-> outcome.script, script_clicks |-> 1]

\* an element handle kept from an earlier attempt
ElementKept(attempt, kept) == IF kept = 0 THEN attempt + 1 ELSE kept

\* the handle an attempt works on: the one its own lookup returned, numbered
\* by the attempt that resolved it
ElementResolved(attempt, kept) == attempt + 1

\* the field after `if clear_first: element.clear()`: what it was sent since
\* it was last cleared
SentAfterClear(clear_first, sent) == IF clear_first THEN <<>> ELSE sent

\* the body of one attempt, after the lookup `find`, on the element handle
\* `handle`: "ok" or the exception that leaves the try block, with the
\* clicks made and what the field has been sent
AttemptResult(op, use_action_chains, clear_first, find, handle, stale, outcome, sent) ==
    LET nothing == [native_clicks |-> 0, script_clicks |-> 0, sent |-> sent,
                    handle |-> handle, outcome |-> outcome]
    IN  IF find.raised
        THEN [res |-> "InvalidSelectorException"] @@ nothing
        ELSE IF ~find.found
        THEN [res |-> "NoSuchElementException"] @@ nothing
        ELSE IF handle \in stale
        THEN \* the handle of an element that is gone
             [res |-> "StaleElementReferenceException"] @@ nothing
        ELSE IF op = "click" /\ ~use_action_chains
        THEN IF outcome.error = "ElementClickInterceptedException"
             THEN [native_clicks |-> 1] @@ JsClickFallback(outcome) @@ nothing
             ELSE [res |-> outcome.error,
                   native_clicks |-> IF outcome.error \in {"ok", "WebDriverException"}
                                     THEN 1 ELSE 0] @@ nothing
        ELSE IF op = "type"
        THEN [res |-> outcome.error,
              sent |-> SentAfterClear(clear_first, sent)
                       \o SubSeq(TypedText, 1, outcome.typed)] @@ nothing
        ELSE \* ActionChains click, hover
             [res |-> outcome.error] @@ nothing

\* the outcome of the next interaction: the page goes on as it last did
\* when the outcomes given are used up
NextOutcome(outcomes, used) ==
    IF used < Len(outcomes) THEN outcomes[used + 1] ELSE outcomes[Len(outcomes)]

\* the for loop over range(max_retries) of click and type; `kept` is the
\* handle of the attempt before, `stale` the handles that went stale, `used`
\* the outcomes consumed
RECURSIVE RetryLoop(_, _, _, _, _, _, _, _, _, _)
RetryLoop(op, attempt, selector, place, use_action_chains, clear_first, outcomes, st, log, trace) ==
    IF attempt >= max_retries
    THEN \* the return False after the loop
         [returned |-> FALSE, raised |-> FALSE, log |-> log, trace |-> trace,
          sent |-> st.sent, frame |-> st.frame, current_iframe |-> st.cur]
    ELSE LET find == _find_element_with_fallbacks(selector, st.frame, st.cur,
                                                  place, TRUE, {})
             handle == ElementResolved(attempt, st.kept)
             outcome == NextOutcome(outcomes, st.used)
             att == AttemptResult(op, use_action_chains, clear_first, find,
                                  handle, st.stale, outcome, st.sent)
             next == [frame |-> find.frame, cur |-> find.current_iframe,
                      kept |-> handle,
                      stale |-> IF att.res = "StaleElementReferenceException"
                                THEN st.stale \cup {handle} ELSE st.stale,
                      used |-> IF find.found THEN st.used + 1 ELSE st.used,
                      sent |-> att.sent]
         IN  IF att.res = "ok"
             THEN [returned |-> TRUE, raised |-> FALSE,
                   log |-> Append(log, att.res), trace |-> Append(trace, att),
                   sent |-> att.sent, frame |-> find.frame,
                   current_iframe |-> find.current_iframe]
             ELSE IF Retry(attempt)
             THEN RetryLoop(op, attempt + 1, selector, place,
                            use_action_chains, clear_first, outcomes, next,
                            Append(log, att.res), Append(trace, att))
             ELSE [returned |-> FALSE, raised |-> FALSE,
                   log |-> Append(log, att.res), trace |-> Append(trace, att),
                   sent |-> att.sent, frame |-> find.frame,
                   current_iframe |-> find.current_iframe]

\* the loop's state when the call starts
LoopStart(frame, cur) ==
    [frame |-> frame, cur |-> cur, kept |-> 0, stale |-> {}, used |-> 0,
     sent |-> <<>>]

\* does the interaction of an attempt succeed
Succeeds(op, use_action_chains, outcome) ==
    \/ outcome.error = "ok"
    \/ /\ op = "click"
       /\ ~use_action_chains
       /\ outcome.error = "ElementClickInterceptedException"
       /\ outcome.script = "ok"

\* the outcomes of the attempts of one call: each but the last fails
Scripts(op, use_action_chains, outcomes) ==
    {s \in SeqsUpTo(outcomes, max_retries) :
        /\ s # <<>>
        /\ \A i \in 1..(Len(s) - 1) : ~Succeeds(op, use_action_chains, s[i])
        /\ Len(s) = max_retries \/ Succeeds(op, use_action_chains, s[Len(s)])}

NativeClickScripts == Scripts("click", FALSE, ClickOutcomes)
ChainsClickScripts == Scripts("click", TRUE, ClickOutcomes)
TypeScripts == Scripts("type", FALSE, TypeOutcomes)

\* an element that no lookup finds is never interacted with: one outcome
\* stands for all
ScriptsFor(selector, place, scripts) ==
    IF InvalidCss(selector) \/ place.kind = "absent"
    THEN {<<Outcome("ok", "ok", 0)>>}
    ELSE scripts

\* the single attempt of hover: every exception becomes False
HoverResult(selector, frame, cur, place, outcome) ==
    LET find == _find_element_with_fallbacks(selector, frame, cur, place,
                                             TRUE, {})
        att == AttemptResult("hover", FALSE, FALSE, find,
                             ElementResolved(0, 0), {}, outcome, <<>>)
    IN  [returned |-> att.res = "ok", raised |-> FALSE, log |-> <<att.res>>,
         trace |-> <<att>>, sent |-> <<>>,
         frame |-> find.frame, current_iframe |-> find.current_iframe]

\* wait_for_element: one wait on the CSS selector in the document the driver
\* is in; only TimeoutException is caught
WaitResult(selector, state, frame, cur, place, appears) ==
    LET res == IF state \notin {"visible", "clickable", "present"}
               THEN "ValueError"
               ELSE IF InvalidCss(selector) THEN "InvalidSelectorException"
               ELSE IF "css" \in HitsIn(frame, place) /\ (state = "present" \/ appears)
               THEN "ok"
               ELSE "TimeoutException"
    IN  [returned |-> res = "ok", raised |-> res \notin {"ok", "TimeoutException"},
         log |-> <<res>>, frame |-> frame, current_iframe |-> cur]

click ==
    \E selector \in InteractSelectors, place \in InteractPlaces,
       use_action_chains \in BOOLEAN :
    \E outcomes \in ScriptsFor(selector, place,
                                IF use_action_chains THEN ChainsClickScripts
                                ELSE NativeClickScripts) :
        /\ last_call' =
               [op |-> "click", before |-> driver_frame,
                selector |-> selector, place |-> place,
                use_action_chains |-> use_action_chains]
               @@ RetryLoop("click", 0, selector, place, use_action_chains,
                            FALSE, outcomes,
                            LoopStart(driver_frame, current_iframe), <<>>, <<>>)
        /\ driver_frame' = last_call'.frame
        /\ current_iframe' = last_call'.current_iframe
        /\ UNCHANGED <<pc, wf_vars, env_vars, validator_vars, peer_vars,
                       result, hist_vars, store_idle_vars>>

type ==
    \E selector \in InteractSelectors, place \in InteractPlaces,
       clear_first \in BOOLEAN :
    \E outcomes \in ScriptsFor(selector, place, TypeScripts) :
        /\ last_call' =
               [op |-> "type", before |-> driver_frame,
                selector |-> selector, place |-> place,
                clear_first |-> clear_first]
               @@ RetryLoop("type", 0, selector, place, FALSE, clear_first,
                            outcomes, LoopStart(driver_frame, current_iframe),
                            <<>>, <<>>)
        /\ driver_frame' = last_call'.frame
        /\ current_iframe' = last_call'.current_iframe
        /\ UNCHANGED <<pc, wf_vars, env_vars, validator_vars, peer_vars,
                       result, hist_vars, store_idle_vars>>

hover ==
    \E selector \in InteractSelectors, place \in InteractPlaces,
       outcome \in ClickOutcomes :
        /\ last_call' =
               [op |-> "hover", before |-> driver_frame,
                selector |-> selector, place |-> place]
               @@ HoverResult(selector, driver_frame, current_iframe, place,
                              outcome)
        /\ driver_frame' = last_call'.frame
        /\ current_iframe' = last_call'.current_iframe
        /\ UNCHANGED <<pc, wf_vars, env_vars, validator_vars, peer_vars,
                       result, hist_vars, store_idle_vars>>

wait_for_element ==
    \E selector \in InteractSelectors, place \in InteractPlaces,
       state \in WaitStates, appears \in BOOLEAN :
        /\ last_call' =
               [op |-> "wait_for_element", before |-> driver_frame,
                selector |-> selector, place |-> place]
               @@ WaitResult(selector, state, driver_frame, current_iframe,
                             place, appears)
        /\ UNCHANGED <<driver_frame, current_iframe, pc, wf_vars, env_vars,
                       validator_vars, peer_vars, result, hist_vars,
                       store_idle_vars>>

NextInteract == click \/ type \/ hover \/ wait_for_element \/ SeleniumStart

SpecInteract == InitResolver /\ [][NextInteract]_vars

\* C24: click and type make at most 3 attempts, return true as soon as one
\* attempt succeeds and false exactly when all 3 attempts failed.
C24_AtMostThreeAttempts ==
    last_call.op \in {"click", "type"} =>
        LET log == last_call.log
            n == Len(log)
        IN  /\ n \in 1..3
            /\ \A i \in 1..(n - 1) : log[i] # "ok"
            /\ last_call.returned <=> log[n] = "ok"
            /\ ~last_call.returned <=> (n = 3 /\ \A i \in 1..3 : log[i] # "ok")
            /\ ~last_call.raised

\* a click that fails twice and succeeds at the third attempt, and one that
\* fails three times
C24_Witness ==
    /\ last_call.op = "click"
    /\ Len(last_call.log) = 3
    /\ last_call.log[1] = "StaleElementReferenceException"
    /\ last_call.log[2] = "TimeoutException"
    /\ last_call.log[3] = "ok"
    /\ last_call.returned

\* the exceptions the specification names as expected: not-found, stale
\* element, intercepted or not interactable, timeout
ExpectedExceptions ==
    {"NoSuchElementException", "StaleElementReferenceException",
     "ElementClickInterceptedException", "ElementNotInteractableException",
     "TimeoutException"}

\* C25 (as claimed): click, type, hover and wait_for_element do not swallow
\* an unexpected exception: when the last attempt ends in an exception that
\* is neither not-found, stale-element, intercepted/not-interactable nor
\* timeout, the call raises it instead of returning false.
C25_UnexpectedExceptionPropagates ==
    last_call.op \in {"click", "type", "hover", "wait_for_element"} =>
        LET last == last_call.log[Len(last_call.log)]
        IN  last \notin (ExpectedExceptions \cup {"ok"}) => last_call.raised

\* ---------------------------------------------------------------------
\* The parsers of the agents' replies. A reply is a sequence of tokens:
\* braces and brackets, JSON members, words of prose, line breaks.
\* ---------------------------------------------------------------------

MaxReplyLen == 4

LBrace == [t |-> "{"]
RBrace == [t |-> "}"]
\* a member "key": true / "key": false of a JSON object, with its comma
Member(key, value) == [t |-> "member", key |-> key, value |-> value]
\* a key whose value is the object that follows it
ObjectKey(key) == [t |-> "key", key |-> key]
\* a word of prose
Word(text) == [t |-> "word", text |-> text]

\* the tokens of a validator reply
ValidationTokens ==
    {LBrace, RBrace, Member("valid", TRUE), Member("ready_to_proceed", TRUE),
     Member("silent_failure_detected", TRUE), ObjectKey("details"),
     Word("VALID"), Word("Ready")}

\* str.lower() of the texts that occur
Lower(text) ==
    CASE text = "VALID" -> "valid"
      [] text = "Ready" -> "ready"
      [] text = "Click" -> "click"
      [] text = "TYPE" -> "type"
      [] OTHER -> text

\* which of the words the parsers look for are substrings of a lower-case
\* text
WordsIn(text) ==
    CASE text = "valid" -> {"valid"}
      [] text = "true" -> {"true"}
      [] text = "ready" -> {"ready"}
      [] text = "ready_to_proceed" -> {"ready", "proceed"}
      [] text = "click" -> {"click"}
      [] text = "type" -> {"type"}
      [] text = "action_type" -> {"type"}
      [] text = "navigate" -> {"navigate"}
      [] OTHER -> {}

\* the texts a token is written with
TextsOf(token) ==
    CASE token.t = "member" ->
             {token.key, IF token.value THEN "true" ELSE "false"}
      [] token.t = "key" -> {token.key}
      [] token.t = "word" -> {token.text}
      [] token.t = "item" -> {"action_type", token.action_type}
      [] OTHER -> {}

\* word in text.lower()
Mentions(text, word) ==
    \E i \in 1..Len(text) : \E part \in TextsOf(text[i]) :
        word \in WordsIn(Lower(part))

\* re.search(open.*close, text, re.DOTALL).group(): from the first opening
\* token to the last closing token after it, <<>> if there is no match
GreedyMatch(text, open, close) ==
    LET opens == {i \in 1..Len(text) : text[i] = open}
        closes == {j \in 1..Len(text) : text[j] = close}
    IN  IF opens = {} THEN <<>>
        ELSE LET first == CHOOSE i \in opens : \A k \in opens : i <= k
                 after == {j \in closes : j > first}
             IN  IF after = {} THEN <<>>
                 ELSE SubSeq(text, first,
                             CHOOSE j \in after : \A k \in after : k <= j)

\* does json.loads accept the tokens as one object / as its members
RECURSIVE IsJsonObject(_), IsJsonMembers(_)
IsJsonObject(s) ==
    /\ Len(s) >= 2
    /\ s[1] = LBrace
    /\ s[Len(s)] = RBrace
    /\ IsJsonMembers(SubSeq(s, 2, Len(s) - 1))

IsJsonMembers(m) ==
    \/ m = <<>>
    \/ /\ m # <<>>
       /\ Head(m).t = "member"
       /\ IsJsonMembers(Tail(m))
    \/ /\ m # <<>>
       /\ Head(m).t = "key"
       /\ \E j \in 2..Len(m) : /\ IsJsonObject(SubSeq(m, 2, j))
                               /\ IsJsonMembers(SubSeq(m, j + 1, Len(m)))

\* the value of a nested object, not looked into
NestedObject == [object |-> TRUE]

\* the dict json.loads returns for an object: its top-level members, a
\* repeated key keeping its last value
RECURSIVE JsonMembers(_, _, _)
JsonMembers(m, depth, d) ==
    IF m = <<>> THEN d
    ELSE LET token == Head(m)
         IN  CASE token = LBrace -> JsonMembers(Tail(m), depth + 1, d)
               [] token = RBrace -> JsonMembers(Tail(m), depth - 1, d)
               [] token.t = "member" /\ depth = 0 ->
                      JsonMembers(Tail(m), depth, Put(d, token.key, token.value))
               [] token.t = "key" /\ depth = 0 ->
                      JsonMembers(Tail(m), depth, Put(d, token.key, NestedObject))
               [] OTHER -> JsonMembers(Tail(m), depth, d)

JsonObject(s) == JsonMembers(SubSeq(s, 2, Len(s) - 1), 0, <<>>)

\* dict.setdefault(key, value)
SetDefault(d, key, value) == IF key \in DOMAIN d THEN d ELSE Put(d, key, value)

\* the setdefault calls of _parse_validation; confidence in tenths
WithDefaults(d) ==
    SetDefault(SetDefault(SetDefault(SetDefault(SetDefault(SetDefault(SetDefault(
        d, "valid", FALSE), "issues", <<>>), "ready_to_proceed", FALSE),
        "state_type", "unknown"), "silent_failure_detected", FALSE),
        "regression_detected", FALSE), "confidence", 5)

\* a fallback that takes either word for a verdict
FallbackParseEitherWord(validation_text) ==
    LET valid == Mentions(validation_text, "valid") \/ Mentions(validation_text, "true")
        ready == Mentions(validation_text, "ready") \/ Mentions(validation_text, "proceed")
    IN  [valid |-> valid,
         issues |-> IF valid THEN <<>> ELSE <<"Validation unclear">>,
         ready_to_proceed |-> ready, state_type |-> "unknown",
         silent_failure_detected |-> FALSE, regression_detected |-> FALSE,
         confidence |-> 3]

\* the fallback parsing of _parse_validation; confidence in tenths
FallbackParse(validation_text) ==
    LET valid == Mentions(validation_text, "valid") /\ Mentions(validation_text, "true")
        ready == Mentions(validation_text, "ready") /\ Mentions(validation_text, "proceed")
    IN  [valid |-> valid,
         issues |-> IF valid THEN <<>> ELSE <<"Validation unclear">>,
         ready_to_proceed |-> ready, state_type |-> "unknown",
         silent_failure_detected |-> FALSE, regression_detected |-> FALSE,
         confidence |-> 3]

\* StateValidatorAgent._parse_validation
_parse_validation(validation_text) ==
    LET json_match == GreedyMatch(validation_text, LBrace, RBrace)
    IN  IF json_match # <<>> /\ IsJsonObject(json_match)
        THEN WithDefaults(JsonObject(json_match))
        ELSE FallbackParse(validation_text)

LBracket == [t |-> "["]
RBracket == [t |-> "]"]
\* an action object of a JSON list, with its comma
Item(action_type) == [t |-> "item", action_type |-> action_type]
\* the line break
Newline == [t |-> "\n"]

\* the tokens of a planner reply
PlanTokens ==
    {LBracket, RBracket, Item("navigate"), Word("Click"), Word("open"), Newline}

\* does json.loads accept the tokens as one list / as its items
RECURSIVE IsJsonList(_), IsJsonItems(_)
IsJsonList(s) ==
    /\ Len(s) >= 2
    /\ s[1] = LBracket
    /\ s[Len(s)] = RBracket
    /\ IsJsonItems(SubSeq(s, 2, Len(s) - 1))

IsJsonItems(m) ==
    \/ m = <<>>
    \/ /\ m # <<>>
       /\ Head(m).t = "item"
       /\ IsJsonItems(Tail(m))
    \/ /\ m # <<>>
       /\ \E j \in 2..Len(m) : /\ IsJsonList(SubSeq(m, 1, j))
                               /\ IsJsonItems(SubSeq(m, j + 1, Len(m)))

\* the value of a nested list, not looked into
NestedList == [list |-> TRUE]

\* the list json.loads returns: its top-level items in order
RECURSIVE JsonItems(_, _)
JsonItems(m, depth) ==
    IF m = <<>> THEN <<>>
    ELSE LET token == Head(m)
         IN  CASE token = LBracket ->
                      (IF depth = 0 THEN <<NestedList>> ELSE <<>>)
                      \o JsonItems(Tail(m), depth + 1)
               [] token = RBracket -> JsonItems(Tail(m), depth - 1)
               [] token.t = "item" /\ depth = 0 ->
                      <<[action_type |-> token.action_type]>>
                      \o JsonItems(Tail(m), depth)
               [] OTHER -> JsonItems(Tail(m), depth)

JsonList(s) == JsonItems(SubSeq(s, 2, Len(s) - 1), 0)

\* plan_text.split('\n')
RECURSIVE Split(_, _)
Split(text, line) ==
    IF text = <<>> THEN <<line>>
    ELSE IF Head(text) = Newline THEN <<line>> \o Split(Tail(text), <<>>)
    ELSE Split(Tail(text), Append(line, Head(text)))

\* the step the fallback makes of a line, none for a line that mentions no
\* action
LineSteps(line) ==
    IF Mentions(line, "click") \/ Mentions(line, "type") \/ Mentions(line, "navigate")
    THEN <<[action_type |-> IF Mentions(line, "click") THEN "click"
                            ELSE IF Mentions(line, "type") THEN "type"
                            ELSE "navigate",
            selector |-> line, description |-> line]>>
    ELSE <<>>

RECURSIVE StepsOfLines(_)
StepsOfLines(lines) ==
    IF lines = <<>> THEN <<>>
    ELSE LineSteps(Head(lines)) \o StepsOfLines(Tail(lines))

\* UINavigatorAgent._parse_navigation_plan
_parse_navigation_plan(plan_text) ==
    LET json_match == GreedyMatch(plan_text, LBracket, RBracket)
        steps == StepsOfLines(Split(plan_text, <<>>))
    IN  IF json_match # <<>> /\ IsJsonList(json_match)
        THEN JsonList(json_match)
        ELSE IF steps # <<>> THEN steps
        ELSE <<[action_type |-> "navigate", description |-> plan_text]>>

\* the replies the two parsers are given
ValidationReplies == SeqsUpTo(ValidationTokens, MaxReplyLen)
PlanReplies == SeqsUpTo(PlanTokens, MaxReplyLen)

InitParse ==
    /\ IdleWorkflow
    /\ context_version = 0
    /\ local_cache = <<>>
    /\ sync_history = <<>>
    /\ upstash = <<>>
    /\ now = 0
    /\ stamps = <<>>
    /\ remote_answered = FALSE
    /\ saved = <<>>
    /\ upstash_configured = FALSE
    /\ FreshValidator
    /\ peer = FreshPeer
    /\ FreshSelenium
    /\ last_call \in
           {[op |-> "validator_reply", text |-> r] : r \in ValidationReplies}
           \cup {[op |-> "planner_reply", text |-> r] : r \in PlanReplies}

\* validate_state hands the validator's reply to _parse_validation
ParseValidation ==
    /\ last_call.op = "validator_reply"
    /\ last_call' = [op |-> "_parse_validation", text |-> last_call.text,
                     result |-> _parse_validation(last_call.text)]
    /\ UNCHANGED <<idle_vars, store_idle_vars>>

\* navigate_to_task hands the planner's reply to _parse_navigation_plan
ParseNavigationPlan ==
    /\ last_call.op = "planner_reply"
    /\ last_call' = [op |-> "_parse_navigation_plan", text |-> last_call.text,
                     result |-> _parse_navigation_plan(last_call.text)]
    /\ UNCHANGED <<idle_vars, store_idle_vars>>

NextParse == ParseValidation \/ ParseNavigationPlan

SpecParse == InitParse /\ [][NextParse]_vars

\* C27: a reply that cannot be parsed is judged by its words: valid when it
\* mentions both 'valid' and 'true', ready_to_proceed when it mentions both
\* 'ready' and 'proceed', confidence 0.3, both detection flags false; a reply
\* that parses gets valid = false, ready_to_proceed = false and confidence
\* 0.5 for the fields it omits.
C27_FallbackAndDefaults ==
    last_call.op = "_parse_validation" =>
        LET text == last_call.text
            res == last_call.result
            block == GreedyMatch(text, LBrace, RBrace)
        IN  IF block # <<>> /\ IsJsonObject(block)
            THEN LET given == JsonObject(block)
                 IN  /\ "valid" \notin DOMAIN given => res.valid = FALSE
                     /\ "ready_to_proceed" \notin DOMAIN given =>
                            res.ready_to_proceed = FALSE
                     /\ "confidence" \notin DOMAIN given => res.confidence = 5
                     /\ \A k \in DOMAIN given : res[k] = given[k]
            ELSE /\ res.valid <=> (Mentions(text, "valid") /\ Mentions(text, "true"))
                 /\ res.ready_to_proceed <=>
                        (Mentions(text, "ready") /\ Mentions(text, "proceed"))
                 /\ res.confidence = 3
                 /\ ~res.silent_failure_detected
                 /\ ~res.regression_detected

\* a reply without braces that says VALID but nowhere true: not valid, at
\* confidence 0.3
C27_Witness ==
    /\ last_call.op = "_parse_validation"
    /\ last_call.text = <<Word("VALID"), Word("Ready")>>
    /\ last_call.result.valid = FALSE
    /\ last_call.result.confidence = 3

\* the block from the first `open` to the `close` that balances it, <<>>
\* if there is none
FirstBalanced(text, open, close) ==
    LET opens == {i \in 1..Len(text) : text[i] = open}
    IN  IF opens = {} THEN <<>>
        ELSE LET first == CHOOSE i \in opens : \A k \in opens : i <= k
                 Count(token, j) ==
                     Cardinality({k \in first..j : text[k] = token})
                 ends == {j \in first..Len(text) :
                              Count(open, j) = Count(close, j)}
             IN  IF ends = {} THEN <<>>
                 ELSE SubSeq(text, first,
                             CHOOSE j \in ends : \A k \in ends : j <= k)

\* C28 (as claimed): _parse_validation extracts the first balanced block:
\* whenever that block is a well-formed JSON object the result is that
\* object's judgment, whatever follows it.
C28_FirstBalancedObject ==
    last_call.op = "_parse_validation" =>
        LET block == FirstBalanced(last_call.text, LBrace, RBrace)
        IN  (block # <<>> /\ IsJsonObject(block)) =>
                last_call.result = WithDefaults(JsonObject(block))

\* C29 (as claimed): _parse_navigation_plan returns the first well-formed
\* JSON list of the reply, and for a reply that holds no well-formed list
\* exactly one action, of type 'navigate', described by the raw reply.
C29_FirstListOrSingleNavigate ==
    last_call.op = "_parse_navigation_plan" =>
        LET text == last_call.text
            block == FirstBalanced(text, LBracket, RBracket)
            lists == {<<i, j>> \in (1..Len(text)) \X (1..Len(text)) :
                          i < j /\ IsJsonList(SubSeq(text, i, j))}
        IN  /\ (block # <<>> /\ IsJsonList(block)) =>
                   last_call.result = JsonList(block)
            /\ lists = {} =>
                   /\ Len(last_call.result) = 1
                   /\ last_call.result[1].action_type = "navigate"
                   /\ last_call.result[1].description = text

\* ---------------------------------------------------------------------
\* StateValidatorAgent.validate_state with what it returns
\* ---------------------------------------------------------------------

MaxValidateCalls == 6

\* the replies the validator's crew gives in this part
CrewReplies ==
    {<<LBrace, Member("valid", TRUE), Member("ready_to_proceed", TRUE), RBrace>>,
     <<Word("VALID")>>,
     <<LBrace, RBrace, RBrace>>}

\* what the try block of validate_state comes to: an exception with its
\* str(e), from the browser calls or from the crew, or the crew's reply. A
\* browser without the snapshot methods raises AttributeError at the latest
\* at get_page_html.
TryOutcomes(snapshots) ==
    {[raised |-> TRUE, msg |-> m] : m \in ExceptionMessages \cup {AttributeErrorMessage}}
    \cup (IF snapshots
          THEN {[raised |-> FALSE, reply |-> r] : r \in CrewReplies}
          ELSE {})

\* a handler that logs and raises again
ExceptHandlerReraise(msg) == [raised |-> TRUE, result |-> None]

\* the except branch of validate_state; confidence in tenths
ExceptHandler(msg) ==
    [raised |-> FALSE,
     result |-> [valid |-> FALSE, issues |-> <<msg>>, ready_to_proceed |-> FALSE,
                 state_type |-> "error_state",
                 silent_failure_detected |-> FALSE,
                 regression_detected |-> FALSE, confidence |-> 0]]

\* what validate_state gives its caller
ValidateOutcome(work) ==
    IF work.raised
    THEN ExceptHandler(work.msg)
    ELSE [raised |-> FALSE, result |-> _parse_validation(work.reply)]

\* the fields of a judgment the workflow and the history look at
Judgment(outcome) ==
    IF outcome.raised \/ outcome.result.state_type = "error_state"
    THEN ErrorStateJudgment
    ELSE [valid |-> outcome.result.valid,
          ready_to_proceed |-> outcome.result.ready_to_proceed,
          state_type |-> outcome.result.state_type,
          silent_failure_detected |-> outcome.result.silent_failure_detected,
          regression_detected |-> outcome.result.regression_detected]

\* one call of validate_state
ValidateState ==
    /\ validation_count < MaxValidateCalls
    /\ \E work \in TryOutcomes(browser_snapshots) :
          LET outcome == ValidateOutcome(work)
          IN  /\ validation_count' = validation_count + 1
              /\ now' = now + ValidationSeconds(Judgment(outcome))
              /\ state_history' =
                     StateHistoryAfter(state_history, Judgment(outcome), now')
              /\ snapshot_log' =
                     SnapshotLogAfter(snapshot_log, Judgment(outcome), now')
              /\ last_call' = [op |-> "validate_state", work |-> work,
                               history_before |-> state_history,
                               raised |-> outcome.raised,
                               result |-> outcome.result]
    /\ UNCHANGED <<pc, wf_vars, env_vars, peer_vars, selenium_vars, result,
                   hist_vars, context_version, local_cache, sync_history,
                   upstash_configured, upstash, stamps, remote_answered, saved>>

NextValidate == ValidateState

SpecValidate == InitHistory /\ [][NextValidate]_vars

\* C26: validate_state always returns a judgment and never raises; when
\* anything in its work throws, the judgment is valid = false,
\* ready_to_proceed = false, state_type = error_state, confidence 0.0 with
\* the error text as its only issue, and the state history is left as it
\* was.
C26_AlwaysReturnsJudgment ==
    last_call.op = "validate_state" =>
        /\ ~last_call.raised
        /\ {"valid", "ready_to_proceed", "state_type", "confidence"}
               \subseteq DOMAIN last_call.result
        /\ last_call.work.raised =>
               /\ last_call.result.valid = FALSE
               /\ last_call.result.ready_to_proceed = FALSE
               /\ last_call.result.state_type = "error_state"
               /\ last_call.result.confidence = 0
               /\ last_call.result.issues = <<last_call.work.msg>>
               /\ state_history = last_call.history_before

\* a validation that fails after an earlier one was recorded: the error
\* judgment comes back and the history still holds the one snapshot
C26_Witness ==
    /\ last_call.op = "validate_state"
    /\ last_call.work.raised
    /\ last_call.work.msg = "Timeout 30000ms exceeded"
    /\ last_call.result.state_type = "error_state"
    /\ Len(state_history) = 1
    /\ validation_count = 2

\* ---------------------------------------------------------------------
\* The optional tiers: OCRAutomation without its dependencies, UpstashSync
\* without credentials
\* ---------------------------------------------------------------------

\* the imports of the try block of ocr_automation, in order, and the name
\* each one binds
OcrImports == <<"cv2", "numpy", "PIL", "pytesseract", "pyautogui">>

\* the packages that can be missing: none ("") or one of the five
MissingChoices == {""} \cup {OcrImports[i] : i \in DOMAIN OcrImports}

\* the names bound when the try block is left: those imported before the
\* first import that fails
BoundImports(missing) ==
    {OcrImports[i] : i \in {k \in DOMAIN OcrImports :
                               \A j \in 1..k : OcrImports[j] # missing}}

\* OCR_AVAILABLE
OCR_AVAILABLE(missing) == missing = ""

\* the class body of OCRAutomation: the return annotations of
\* capture_screen and others name np.ndarray. An interpreter that evaluates
\* annotations when the function is defined raises NameError if numpy was
\* not imported; one that defers them does not.
ImportRaises(missing, eager_annotations) ==
    eager_annotations /\ "numpy" \notin BoundImports(missing)

\* the methods of OCRAutomation with what each returns when the tier is
\* unavailable and what it does on the screen when it is available
OcrMethods ==
    {[name |-> "capture_screen", absent |-> "None", effect |-> "screen_capture"],
     [name |-> "find_text_on_screen", absent |-> "None", effect |-> "screen_capture"],
     [name |-> "click_on_text", absent |-> "False", effect |-> "input_event"],
     [name |-> "type_text", absent |-> "False", effect |-> "input_event"],
     [name |-> "click_at_coordinates", absent |-> "False", effect |-> "input_event"],
     [name |-> "scroll", absent |-> "False", effect |-> "input_event"],
     [name |-> "detect_buttons", absent |-> "[]", effect |-> "screen_capture"],
     [name |-> "find_and_click_button", absent |-> "False", effect |-> "input_event"],
     [name |-> "find_input_field_and_type", absent |-> "False", effect |-> "input_event"],
     [name |-> "wait_for_text", absent |-> "False", effect |-> "screen_capture"]}

\* importing the module, constructing OCRAutomation and calling `method`;
\* `outcome` is how the screen work ends when the tier is available
OcrCallResult(missing, eager_annotations, method, outcome) ==
    IF ImportRaises(missing, eager_annotations)
    THEN [raised |-> TRUE, returned |-> "NameError", effects |-> {}]
    ELSE IF ~OCR_AVAILABLE(missing)
    THEN \* if not self.available: return ...
         [raised |-> FALSE, returned |-> method.absent, effects |-> {}]
    ELSE \* the try block; every exception is caught and reported
         [raised |-> FALSE,
          returned |-> IF outcome = "ok" THEN "value" ELSE method.absent,
          effects |-> {method.effect}]

\* the methods of UpstashSync
UpstashMethods == {"set", "get", "delete", "exists"}

\* a method of UpstashSync on a store that holds nothing under the key
UpstashCallResult(configured, method, remote) ==
    [raised |-> FALSE,
     returned |-> CASE method = "set" ->
                          IF upstash_set(configured, remote) THEN "True" ELSE "False"
                    [] method = "delete" ->
                          IF configured /\ remote = "ok" THEN "True" ELSE "False"
                    [] method = "get" ->
                          IF upstash_get(configured, remote, <<>>, "k") = NotFound
                          THEN "None" ELSE "value"
                    [] method = "exists" ->
                          IF upstash_get(configured, remote, <<>>, "k") = NotFound
                          THEN "False" ELSE "True",
     effects |-> IF configured THEN {"network_call"} ELSE {}]

\* the environment the process starts in
InitTiers ==
    /\ IdleWorkflow
    /\ context_version = 0
    /\ local_cache = <<>>
    /\ sync_history = <<>>
    /\ upstash = <<>>
    /\ now = 0
    /\ stamps = <<>>
    /\ remote_answered = FALSE
    /\ saved = <<>>
    /\ upstash_configured \in BOOLEAN
    /\ FreshValidator
    /\ peer = FreshPeer
    /\ FreshSelenium
    /\ last_call \in {[op |-> "process_start", missing |-> m,
                       eager_annotations |-> e] :
                          m \in MissingChoices, e \in BOOLEAN}

\* a caller uses the OCR tier
OcrCall ==
    /\ last_call.op = "process_start"
    /\ \E method \in OcrMethods, outcome \in RemoteOutcomes :
          last_call' =
              [op |-> "ocr", tier_absent |-> ~OCR_AVAILABLE(last_call.missing),
               missing |-> last_call.missing, method |-> method.name]
              @@ OcrCallResult(last_call.missing, last_call.eager_annotations,
                               method, outcome)
    /\ UNCHANGED <<idle_vars, store_idle_vars>>

\* a caller uses the remote store
UpstashCall ==
    /\ last_call.op = "process_start"
    /\ \E method \in UpstashMethods, remote \in RemoteOutcomes :
          last_call' =
              [op |-> "upstash", tier_absent |-> ~upstash_configured,
               missing |-> "", method |-> method]
              @@ UpstashCallResult(upstash_configured, method, remote)
    /\ UNCHANGED <<idle_vars, store_idle_vars>>

NextTiers == OcrCall \/ UpstashCall

SpecTiers == InitTiers /\ [][NextTiers]_vars

\* C30 (as claimed): when an optional capability is absent (the OCR
\* dependencies failed to import, or the remote store is not configured),
\* every operation of that tier reports failure (false, None or empty)
\* without raising and without a screen capture, an input event or a network
\* call, so that its caller is not failed by the absence.
C30_AbsentTierIsNoOp ==
    (last_call.op \in {"ocr", "upstash"} /\ last_call.tier_absent) =>
        /\ ~last_call.raised
        /\ last_call.returned \in {"False", "None", "[]"}
        /\ last_call.effects = {}

\* C31: within one attempt of click, a native click that is intercepted or
\* not interactable is followed by exactly one script click in that attempt
\* (and no script click is made otherwise); if the script click succeeds the
\* call returns true with that attempt, if it fails the attempt has failed
\* and is retried while attempts are left.
C31_OneScriptClickPerInterceptedClick ==
    (last_call.op = "click" /\ ~last_call.use_action_chains) =>
        \A i \in 1..Len(last_call.trace) :
            LET att == last_call.trace[i]
                intercepted ==
                    /\ att.native_clicks = 1
                    /\ att.outcome.error = "ElementClickInterceptedException"
            IN  /\ att.native_clicks <= 1
                /\ ~intercepted => att.script_clicks = 0
                /\ intercepted =>
                       /\ att.script_clicks = 1
                       /\ att.outcome.script = "ok" =>
                              (last_call.returned /\ i = Len(last_call.trace))
                       /\ att.outcome.script # "ok" =>
                              /\ att.res # "ok"
                              /\ i < max_retries => Len(last_call.trace) > i
                              /\ i = max_retries => ~last_call.returned

\* a click intercepted twice: the first script click fails and the attempt
\* is retried, the second script click succeeds and the call returns true
\* at its second attempt
C31_Witness ==
    /\ last_call.op = "click"
    /\ ~last_call.use_action_chains
    /\ Len(last_call.trace) = 2
    /\ last_call.trace[1].outcome = Outcome("ElementClickInterceptedException", "JavascriptException", 0)
    /\ last_call.trace[1].script_clicks = 1
    /\ last_call.trace[2].outcome = Outcome("ElementClickInterceptedException", "ok", 0)
    /\ last_call.trace[2].script_clicks = 1
    /\ last_call.returned

\* C32: no element handle is reused across attempts or actions: every attempt
\* of click and of type, and every hover, works on the element resolved in
\* that attempt, so the attempt after a stale-element error works on a newly
\* resolved element, different from the stale one.
C32_ElementResolvedAfresh ==
    (last_call.op \in {"click", "type", "hover"}) =>
        \A i \in 1..Len(last_call.trace) :
            LET att == last_call.trace[i]
            IN  /\ att.handle \in {0, i}
                /\ \A j \in 1..(i - 1) :
                       att.handle # 0 => att.handle # last_call.trace[j].handle
                /\ (i > 1 /\ last_call.trace[i - 1].res = "StaleElementReferenceException"
                          /\ att.handle # 0)
                       => att.res # "StaleElementReferenceException"
                              \/ att.outcome.error = "StaleElementReferenceException"

\* a click whose first attempt met a stale element and whose second attempt
\* resolved another element and succeeded on it
C32_Witness ==
    /\ last_call.op = "click"
    /\ last_call.log = <<"StaleElementReferenceException", "ok">>
    /\ last_call.trace[1].handle = 1
    /\ last_call.trace[2].handle = 2
    /\ last_call.returned

\* C39: a successful type call enters the text exactly once: the characters
\* sent to the field after the last clear are exactly those of the text, with
\* clear_first and without it.
C39_TextEnteredOnce ==
    (last_call.op = "type" /\ last_call.returned) => last_call.sent = TypedText

----------------------------------------------------------------------------
(* Further properties of the workflow loop.                                *)

\* C33: when the planner and every planned action returned without raising
\* and the plan has at most max_steps actions, the run ends completed, with
\* success true, no error and steps_completed equal to the plan length.
C33_FullPlanSucceeds ==
    (/\ ReturnedNormally
     /\ planner_calls = 1
     /\ error = None
     /\ Len(navigation_steps) <= max_steps)
        => /\ completed
           /\ result.success
           /\ result.error = None
           /\ result.steps_completed = Len(navigation_steps)

\* C34: the planner is called at most once in a run, in the first loop body
\* while the cursor is 0, and the action list it returned is never changed
\* afterwards.
C34_PlannerOnce ==
    [][ /\ planner_calls' <= 1
        /\ planner_calls' # planner_calls => (iterations = 1 /\ current_step = 0)
        /\ planner_calls >= 1 => navigation_steps' = navigation_steps ]_vars

\* a run of three loop bodies over a plan of two actions: the planner was
\* called once and the two later bodies worked on the list it returned
C34_Witness ==
    /\ pc = "done"
    /\ planner_calls = 1
    /\ iterations = 3
    /\ Len(navigation_steps) = 2
    /\ current_step = 2
    /\ Len(performed) = 2

\* C35: every action the cursor has passed had a driver operation issued
\* for it, and an action of type click, type, wait or navigate had the
\* operation of its own type.
C35_OperationBeforeAdvance ==
    \A i \in 1..current_step :
        LET action_type == Get(navigation_steps[i], "action_type", "click")
        IN  /\ \E j \in 1..Len(performed) : performed[j].step = i - 1
            /\ action_type \in {"click", "type", "wait", "navigate"} =>
                   \E j \in 1..Len(performed) :
                       /\ performed[j].step = i - 1
                       /\ performed[j].op = action_type

\* C36: the screenshots of one run are taken for distinct step indices, so
\* no path is in the list twice.
C36_DistinctScreenshotSteps ==
    \A i, j \in 1..Len(screenshots) :
        i # j => screenshots[i] # screenshots[j]

----------------------------------------------------------------------------
(* Clearing a workflow's context.                                          *)

\* most saves in a run of the clearing model
MaxClearSaves == 2

\* get_agent_state: get_context under the agent's key of the step
get_agent_state(workflow_id, step, agent_name, remote) ==
    get_context(AgentStateKey(workflow_id, step, agent_name), TRUE, remote)

\* get_workflow_context: get_context under the workflow's key of the step
get_workflow_context(workflow_id, step, remote) ==
    get_context(WorkflowContextKey(workflow_id, step), TRUE, remote)

\* workflow ids "notion_task", "notion_task2" and "linear_task": the first is
\* the beginning of the second
ClearWorkflowIds ==
    { WorkflowId("notion", "task"),
      WorkflowId("notion", "task") \o <<"2">>,
      WorkflowId("linear", "task") }
\* the steps the clearing model saves and reads
ClearSteps == {0}

\* the keys sync_agent_state and sync_workflow_context write for a workflow
Belongs(key, workflow_id) ==
    \/ StartsWith(key, workflow_id \o <<":step:">>)
    \/ StartsWith(key, workflow_id \o <<":workflow:step:">>)

InitClear ==
    /\ IdleWorkflow
    /\ FreshValidator
    /\ peer = FreshPeer
    /\ FreshSelenium
    /\ FreshStore
    /\ upstash_configured \in BOOLEAN

ClearSyncAgent ==
    /\ context_version < MaxClearSaves
    /\ \E workflow_id \in ClearWorkflowIds, step \in ClearSteps, remote \in RemoteChoices :
         sync_agent_state(workflow_id, step, "navigator",
                          [url |-> Str("https://app.example/")], remote)

ClearSyncWorkflow ==
    /\ context_version < MaxClearSaves
    /\ \E workflow_id \in ClearWorkflowIds, step \in ClearSteps, remote \in RemoteChoices :
         sync_workflow_context(workflow_id, step, remote)

ClearGetAgentState ==
    \E workflow_id \in ClearWorkflowIds, step \in ClearSteps, remote \in RemoteChoices :
        get_agent_state(workflow_id, step, "navigator", remote)

ClearGetWorkflowContext ==
    \E workflow_id \in ClearWorkflowIds, step \in ClearSteps, remote \in RemoteChoices :
        get_workflow_context(workflow_id, step, remote)

ClearDetect ==
    \E workflow_id \in ClearWorkflowIds, step \in ClearSteps, remote \in RemoteChoices :
        detect_desync(workflow_id, step, "navigator", remote, remote)

ClearWorkflow ==
    \E workflow_id \in ClearWorkflowIds : clear_workflow_context(workflow_id)

NextClear ==
    \/ ClearSyncAgent
    \/ ClearSyncWorkflow
    \/ ClearGetAgentState
    \/ ClearGetWorkflowContext
    \/ ClearDetect
    \/ ClearWorkflow

SpecClear == InitClear /\ [][NextClear]_vars

\* C37: clear_workflow_context(w) removes from the local cache exactly the
\* records of workflow w and leaves the records of every other workflow id
\* as they were, also of one whose id begins with w; the version counter
\* and the sync history do not change.
C37_ClearRemovesOnlyOwn ==
    [][ last_call'.op = "clear" =>
          /\ DOMAIN local_cache' =
                 {k \in DOMAIN local_cache : ~Belongs(k, last_call'.workflow_id)}
          /\ \A k \in DOMAIN local_cache' : local_cache'[k] = local_cache[k]
          /\ context_version' = context_version
          /\ sync_history' = sync_history ]_vars

\* the workflow ids that do not begin with another workflow's id: a key of
\* theirs leaves `saved` only through a clear of their own workflow
OwnPrefixOnly ==
    {w \in ClearWorkflowIds :
        \A v \in ClearWorkflowIds : v # w => ~StartsWith(w, v)}

\* C38: after clear_workflow_context(w) and until the key is saved again,
\* get_agent_state and get_workflow_context for a step of w return NotFound
\* and detect_desync for w reports desynced, also when the earlier saves of
\* w reached the remote store.
C38_ClearedStaysGone ==
    /\ (/\ last_call.op = "get"
        /\ \E w \in OwnPrefixOnly : Belongs(last_call.key, w)
        /\ last_call.key \notin DOMAIN saved)
           => last_call.record = NotFound
    /\ (/\ last_call.op = "detect"
        /\ last_call.workflow_id \in OwnPrefixOnly
        /\ AgentStateKey(last_call.workflow_id, last_call.current_step, "navigator")
               \notin DOMAIN saved
        /\ WorkflowContextKey(last_call.workflow_id, last_call.current_step)
               \notin DOMAIN saved)
           => last_call.report.desynced

====
